---- MODULE Spec2Model ----
(***************************************************************************)
(* A model of the nmstate reconciliation engine (rust/src/lib):            *)
(*   - NetworkState::apply with its checkpoint and retry harness           *)
(*     (net_state.rs), run by two concurrent callers against one           *)
(*     NetworkManager daemon;                                              *)
(*   - the NetworkManager backend apply (nm/apply.rs);                     *)
(*   - the interface table and its up-priority resolution and diff         *)
(*     (ifaces/inter_ifaces.rs).                                           *)
(***************************************************************************)
EXTENDS Integers, Sequences, FiniteSets, TLC

VARIABLES
    \* ---- NetworkState::apply, one run per caller ----
    pc,             \* position of each caller inside apply()
    cfg,            \* the desired state each caller applies (flags + interfaces)
    checkpoint,     \* apply's local `checkpoint`, the token checkpoint_create returned
    calls,          \* the backend calls each apply has made, in order
    count,          \* with_retry's `count` argument
    cur_count,      \* with_retry's `cur_count`
    attempts,       \* how many times with_retry has run `func`
    last_outcome,   \* how the latest run of `func` ended
    sleeps,         \* how many times with_retry has slept
    func_result,    \* the result of the closure given to with_nm_checkpoint / of with_retry
    result,         \* what apply() returned
    \* ---- the NetworkManager daemon ----
    nm_checkpoint,  \* the checkpoint the daemon holds (it holds at most one)
    next_token,     \* the daemon's checkpoint counter
    dropped,        \* which caller's call made the daemon drop which checkpoint
    \* ---- Interfaces::set_up_priority ----
    prio_ifaces,    \* the table: name -> controller, up_priority
    insert_order,   \* Interfaces.insert_order
    passes,         \* what each call of set_ifaces_up_priority returned, in order
    prio_result,    \* what set_up_priority returned
    \* ---- nm::apply::apply_single_state ----
    nm_pc,          \* position inside apply_single_state
    net_state,      \* the interfaces of `net_state`, as to_vec() gives them
    nm_profiles,    \* the connection profiles NetworkManager holds
    nm_active,      \* the UUIDs of NetworkManager's active connections
    nm_local,       \* apply_single_state's local lists
    nm_calls,       \* the profile steps made so far, with their arguments
    nm_result,      \* what apply_single_state returned
    \* ---- diff, apply, retrieve, verify, diff again ----
    diff_pc,        \* position in the round
    desire,         \* the desired Interfaces
    current,        \* the current Interfaces, as last retrieved
    diff_out,       \* what gen_state_for_apply returned last: add, chg, del
    resolved,       \* what resolve_unknown_ifaces returned, and the table it left
    verified,       \* what Interfaces::verify returned last
    \* ---- NetworkState::gen_state_for_apply ----
    net_desire,     \* the desired NetworkState: interfaces, routes, rules
    net_current,    \* the current NetworkState
    net_out,        \* what gen_state_for_apply returned: the result, add, chg, del
    \* ---- ovsdb_apply_global_conf ----
    ovs_merged,     \* the merged state handed in: the ovs-db section and the flags
    ovs_row,        \* the row of the Open_vSwitch table in the database
    ovs_requests,   \* the transact requests sent to the database
    ovs_result,     \* what ovsdb_apply_global_conf returned
    \* ---- OvsDbJsonRpc::recv ----
    rpc_socket,     \* the socket: the reads to come, its fault, the reply written
    rpc_transaction_id, \* the id recv waits for
    rpc_out,        \* what recv returned: the result and the value
    \* ---- NetworkState::new_from_json ----
    document,       \* the document handed in
    parsed,         \* what came back: the result and the state's prop_list
    \* ---- Interfaces::to_vec ----
    vec_table,      \* the table to_vec is called on
    vec_out         \* what each call returned

applyVars == <<pc, cfg, checkpoint, calls, count, cur_count, attempts, last_outcome,
               sleeps, func_result, result, nm_checkpoint, next_token, dropped>>

prioVars == <<prio_ifaces, insert_order, passes, prio_result>>

nmVars == <<nm_pc, net_state, nm_profiles, nm_active, nm_local, nm_calls, nm_result>>

diffVars == <<diff_pc, desire, current, diff_out, resolved, verified>>

netVars == <<net_desire, net_current, net_out>>

ioVars == <<ovs_merged, ovs_row, ovs_requests, ovs_result,
            rpc_socket, rpc_transaction_id, rpc_out, document, parsed,
            vec_table, vec_out>>

vars == <<applyVars, prioVars, nmVars, diffVars, netVars, ioVars>>

----------------------------------------------------------------------------
(* Constants of net_state.rs *)

VERIFY_RETRY_INTERVAL_MILLISECONDS == 1000
VERIFY_RETRY_COUNT == 5
VERIFY_RETRY_COUNT_SRIOV == 60
VERIFY_RETRY_COUNT_KERNEL_MODE == 5

\* The two concurrent callers of apply().
Procs == {1, 2}

\* Largest `count` handed to with_retry when it is run on its own.
MaxRetryCount == 8

\* Option<T>: None is the empty tuple, Some(x) the tuple of x.
None == <<>>
Some(x) == <<x>>

----------------------------------------------------------------------------
(* Results: Ok(()) and Err(NmstateError).  `at` names the step that raised  *)
(* the error and `n` the verification attempt, so that two errors of the    *)
(* same kind raised at different places are different values.               *)

Ok == [ok |-> TRUE, kind |-> "Ok", at |-> "", n |-> 0]
Err(kind, at, n) == [ok |-> FALSE, kind |-> kind, at |-> at, n |-> n]
Pending == [ok |-> FALSE, kind |-> "Pending", at |-> "", n |-> 0]

\* Checkpoint tokens: the daemon's object path and, for the record, who asked
\* for it (0: a program other than the two callers).
NoCheckpoint == [id |-> 0, by |-> 0]
ForeignCheckpoint == [id |-> 1, by |-> 0]

----------------------------------------------------------------------------
(* The desired interfaces a caller applies, as far as apply() itself reads  *)
(* them: has_sriov_enabled looks at the kernel interfaces only.             *)

DesiredKernelIfaces ==
    { <<>>,
      [n \in {"eth0"} |-> [iface_type |-> "ethernet", total_vfs |-> None]],
      [n \in {"eth0"} |-> [iface_type |-> "ethernet", total_vfs |-> Some(0)]],
      [n \in {"eth0"} |-> [iface_type |-> "ethernet", total_vfs |-> Some(2)]],
      [n \in {"bond0"} |-> [iface_type |-> "bond", total_vfs |-> None]] }

\* SrIovConfig::sriov_is_enabled: matches!(self.total_vfs, Some(i) if i > 0)
sriov_is_enabled(total_vfs) == total_vfs # None /\ total_vfs[1] > 0

\* Interfaces::has_sriov_enabled
has_sriov_enabled(kernel_ifaces) ==
    \E name \in DOMAIN kernel_ifaces :
        /\ kernel_ifaces[name].iface_type = "ethernet"
        /\ sriov_is_enabled(kernel_ifaces[name].total_vfs)

\* Faulty variant: the SR-IOV case is never taken.
retry_count_no_sriov(kernel_ifaces) == VERIFY_RETRY_COUNT

\* apply(): let retry_count = if has_sriov_enabled() {..SRIOV} else {..COUNT}
retry_count(kernel_ifaces) ==
    IF has_sriov_enabled(kernel_ifaces)
        THEN VERIFY_RETRY_COUNT_SRIOV
        ELSE VERIFY_RETRY_COUNT

\* Faulty variant: the milliseconds are handed over as they are.
timeout_extend_arg_ms(rc) == VERIFY_RETRY_INTERVAL_MILLISECONDS * rc

\* apply(): (VERIFY_RETRY_INTERVAL_MILLISECONDS * retry_count as u64 / 1000) as u32,
\* the `added_time_sec` of checkpoint_timeout_extend (the cast to u32 keeps the
\* value: the counts are at most 60).
timeout_extend_arg(rc) ==
    (VERIFY_RETRY_INTERVAL_MILLISECONDS * rc) \div 1000

----------------------------------------------------------------------------
(* Helpers on the per-caller state *)

Call(op, token, arg, ok) == [op |-> op, token |-> token, arg |-> arg, ok |-> ok]

Log(p, op, token, arg, ok) ==
    calls' = [calls EXCEPT ![p] = Append(@, Call(op, token, arg, ok))]

Goto(p, where) == pc' = [pc EXCEPT ![p] = where]

\* apply() returns r.
Return(p, r) ==
    /\ pc' = [pc EXCEPT ![p] = "done"]
    /\ result' = [result EXCEPT ![p] = r]

\* The closure handed to with_nm_checkpoint (or with_retry) returns r.
FuncReturn(p, r) ==
    /\ pc' = [pc EXCEPT ![p] = "func_returned"]
    /\ func_result' = [func_result EXCEPT ![p] = r]

retryVars == <<cur_count, attempts, last_outcome, sleeps>>
daemonVars == <<nm_checkpoint, next_token, dropped>>

----------------------------------------------------------------------------
(* NetworkState::apply, net_state.rs 143-227 *)

\* cur_net_state.retrieve()?
apply_retrieve(p) ==
    /\ pc[p] = "retrieve"
    /\ \/ Goto(p, "resolve_unknown_ifaces") /\ UNCHANGED result
       \/ Return(p, Err("PluginFailure", "retrieve", 0))
    /\ UNCHANGED <<cfg, checkpoint, calls, count, retryVars, func_result, daemonVars>>

\* Faulty variant: the error of a failed step is dropped and apply goes on.
next_step_ignoring_error(ok, next) == next

\* The `?` operator: go on when the step succeeded, return otherwise.
next_step(ok, next) == IF ok THEN next ELSE "done"

\* resolve_unknown_ifaces(&cur_net_state.interfaces)? on both clones of the desire
apply_resolve_unknown_ifaces(p) ==
    /\ pc[p] = "resolve_unknown_ifaces"
    /\ \E ok \in BOOLEAN :
        /\ pc' = [pc EXCEPT ![p] = next_step(ok, "gen_state_for_apply")]
        /\ result' = [result EXCEPT ![p] =
              IF ok THEN @ ELSE Err("InvalidArgument", "resolve_unknown_ifaces", 0)]
    /\ UNCHANGED <<cfg, checkpoint, calls, count, retryVars, func_result, daemonVars>>

\* Faulty variant: the NetworkManager branch is taken in either mode.
apply_backend_always_nm(kernel_only) == "checkpoint_create"

\* if !self.kernel_only { .. nm_checkpoint_create() .. } else { nispor_apply(..) .. }
apply_backend(kernel_only) ==
    IF ~kernel_only THEN "checkpoint_create" ELSE "nispor_apply"

\* desire_state_to_apply.gen_state_for_apply(&cur_net_state)?
apply_gen_state_for_apply(p) ==
    /\ pc[p] = "gen_state_for_apply"
    /\ \E ok \in BOOLEAN :
        /\ pc' = [pc EXCEPT ![p] = next_step(ok, apply_backend(cfg[p].kernel_only))]
        /\ result' = [result EXCEPT ![p] =
              IF ok THEN @ ELSE Err("InvalidArgument", "gen_state_for_apply", 0)]
    /\ count' = [count EXCEPT ![p] =
          IF cfg[p].kernel_only THEN VERIFY_RETRY_COUNT_KERNEL_MODE
          ELSE retry_count(cfg[p].kernel_ifaces)]
    /\ UNCHANGED <<cfg, checkpoint, calls, retryVars, func_result, daemonVars>>

----------------------------------------------------------------------------
(* The daemon side of the checkpoint calls, nm/nm_dbus/dbus.rs *)

\* NmDbus::_checkpoint_create: one CheckpointCreate call over all devices.  The
\* daemon refuses it (InvalidArguments, mapped to CheckpointConflict) while
\* another checkpoint exists; any call may also fail for another reason.
checkpoint_create_outcomes ==
    IF nm_checkpoint # NoCheckpoint
        THEN {"CheckpointConflict"}
        ELSE {"Ok", "PluginFailure"}

NewToken(p) == [id |-> next_token, by |-> p]

DaemonCreates(p) ==
    /\ nm_checkpoint' = NewToken(p)
    /\ next_token' = next_token + 1
    /\ checkpoint' = [checkpoint EXCEPT ![p] = NewToken(p)]
    /\ UNCHANGED dropped

\* CheckpointDestroy / CheckpointRollback of `token`, asked by p: the daemon
\* drops the checkpoint of that token when it has it and fails otherwise; the
\* call may also fail and leave the checkpoint where it is.
DaemonDrops(p, token, ok) ==
    /\ ok => nm_checkpoint = token /\ token # NoCheckpoint
    /\ nm_checkpoint' = IF ok THEN NoCheckpoint ELSE nm_checkpoint
    /\ dropped' = IF ok THEN dropped \cup {[by |-> p, token |-> token]} ELSE dropped
    /\ UNCHANGED next_token

----------------------------------------------------------------------------
(* apply(), NetworkManager mode: net_state.rs 164-204 *)

\* Faulty variant: the add state is emitted before the delete state.
nm_apply_phases_add_first == <<"nm_apply_add", "nm_apply_delete", "nm_apply_change">>

\* nm_apply (nm/apply.rs 32-46): delete_net_state, apply_single_state(add),
\* apply_single_state(chg).
nm_apply_phases == <<"nm_apply_delete", "nm_apply_add", "nm_apply_change">>

PhaseIndex(phase) == CHOOSE i \in 1..Len(nm_apply_phases) : nm_apply_phases[i] = phase

\* nm_checkpoint_create()?, first try of NmDbus::checkpoint_create (with
\* NM_CHECKPOINT_CREATE_FLAG_TRACK_INTERNAL_GLOBAL_DNS); any error leads to
\* the second try.
apply_checkpoint_create(p) ==
    /\ pc[p] = "checkpoint_create"
    /\ \E outcome \in checkpoint_create_outcomes :
        \/ /\ outcome = "Ok"
           /\ DaemonCreates(p)
           /\ Log(p, "checkpoint_create", NewToken(p), 0, TRUE)
           /\ Goto(p, "nm_api_new")
        \/ /\ outcome # "Ok"
           /\ Goto(p, "checkpoint_create_retry")
           /\ UNCHANGED <<checkpoint, calls, daemonVars>>
    /\ UNCHANGED <<cfg, count, retryVars, func_result, result>>

\* The second try of NmDbus::checkpoint_create, without the flag; its error
\* is what nm_checkpoint_create()? returns.
apply_checkpoint_create_retry(p) ==
    /\ pc[p] = "checkpoint_create_retry"
    /\ \E outcome \in checkpoint_create_outcomes :
        \/ /\ outcome = "Ok"
           /\ DaemonCreates(p)
           /\ Log(p, "checkpoint_create", NewToken(p), 0, TRUE)
           /\ Goto(p, "nm_api_new")
           /\ UNCHANGED result
        \/ /\ outcome # "Ok"
           /\ Return(p, Err(outcome, "checkpoint_create", 0))
           /\ UNCHANGED <<checkpoint, calls, daemonVars>>
    /\ UNCHANGED <<cfg, count, retryVars, func_result>>

\* nm_apply (nm/apply.rs 30): NmApi::new().map_err(nm_error_to_nmstate)?
apply_nm_api_new(p) ==
    /\ pc[p] = "nm_api_new"
    /\ \E ok \in BOOLEAN :
        /\ Log(p, "nm_api_new", checkpoint[p], 0, ok)
        /\ IF ok
             THEN Goto(p, nm_apply_phases[1]) /\ UNCHANGED func_result
             ELSE FuncReturn(p, Err("PluginFailure", "nm_api_new", 0))
    /\ UNCHANGED <<cfg, checkpoint, count, retryVars, result, daemonVars>>

\* One phase of nm_apply inside the closure: `?` returns its error from the
\* closure, and the last phase is followed by the timeout extension.
apply_nm_apply(p) ==
    /\ pc[p] \in {"nm_apply_delete", "nm_apply_add", "nm_apply_change"}
    /\ \E ok \in BOOLEAN :
        /\ Log(p, pc[p], checkpoint[p], 0, ok)
        /\ IF ok
             THEN /\ Goto(p, IF PhaseIndex(pc[p]) < Len(nm_apply_phases)
                               THEN nm_apply_phases[PhaseIndex(pc[p]) + 1]
                               ELSE "checkpoint_timeout_extend")
                  /\ UNCHANGED func_result
             ELSE FuncReturn(p, Err("PluginFailure", pc[p], 0))
    /\ UNCHANGED <<cfg, checkpoint, count, retryVars, result, daemonVars>>

\* Faulty variant: the verification runs whatever the flag says.
verify_change_always(no_verify) == TRUE

\* `if !self.no_verify`, the flag set by set_verify_change(value) as !value
verify_change(no_verify) == ~no_verify

\* nm_checkpoint_timeout_extend(&checkpoint, ...)?, then `if !self.no_verify`
apply_checkpoint_timeout_extend(p) ==
    /\ pc[p] = "checkpoint_timeout_extend"
    /\ \E ok \in BOOLEAN :
        /\ ok => nm_checkpoint = checkpoint[p]
        /\ Log(p, "checkpoint_timeout_extend", checkpoint[p],
               timeout_extend_arg(retry_count(cfg[p].kernel_ifaces)), ok)
        /\ IF ~ok
             THEN FuncReturn(p, Err("PluginFailure", "checkpoint_timeout_extend", 0))
             ELSE IF verify_change(cfg[p].no_verify)
                    THEN Goto(p, "with_retry") /\ UNCHANGED func_result
                    ELSE FuncReturn(p, Ok)
    /\ UNCHANGED <<cfg, checkpoint, count, retryVars, result, daemonVars>>

----------------------------------------------------------------------------
(* with_retry, net_state.rs 553-579 *)

\* Faulty variant: the last attempt is looked for one count too late.
is_last_attempt_off_by_one(cur, cnt) == cur = cnt

\* if cur_count == count - 1
is_last_attempt(cur, cnt) == cur = cnt - 1

\* One turn of `while cur_count < count`: func() retrieves the current state
\* again and verifies the desire against it; either may fail.
with_retry_attempt(p) ==
    /\ pc[p] = "with_retry"
    /\ cur_count[p] < count[p]
    /\ attempts' = [attempts EXCEPT ![p] = @ + 1]
    /\ \E outcome \in {"Ok", "VerificationError", "PluginFailure"} :
        /\ last_outcome' = [last_outcome EXCEPT ![p] = outcome]
        /\ IF outcome = "Ok"
             THEN FuncReturn(p, Ok)
             ELSE IF is_last_attempt(cur_count[p], count[p])
                    THEN FuncReturn(p, Err(outcome, "verify", attempts[p] + 1))
                    ELSE Goto(p, "with_retry_sleep") /\ UNCHANGED func_result
    /\ UNCHANGED <<cfg, checkpoint, calls, count, cur_count, sleeps, result, daemonVars>>

\* std::thread::sleep(interval_ms); cur_count += 1; continue
with_retry_sleep(p) ==
    /\ pc[p] = "with_retry_sleep"
    /\ sleeps' = [sleeps EXCEPT ![p] = @ + 1]
    /\ cur_count' = [cur_count EXCEPT ![p] = @ + 1]
    /\ Goto(p, "with_retry")
    /\ UNCHANGED <<cfg, checkpoint, calls, count, attempts, last_outcome, func_result,
                   result, daemonVars>>

\* The loop condition fails: the Ok(()) after the loop.
with_retry_loop_end(p) ==
    /\ pc[p] = "with_retry"
    /\ ~(cur_count[p] < count[p])
    /\ FuncReturn(p, Ok)
    /\ UNCHANGED <<cfg, checkpoint, calls, count, retryVars, result, daemonVars>>

----------------------------------------------------------------------------
(* with_nm_checkpoint, net_state.rs 532-551 *)

\* Faulty variant: the checkpoint is destroyed whatever func() returned.
release_path_always_destroy(r) == "destroy"

\* match func() { Ok(()) => destroy, Err(e) => rollback }
release_path(r) == IF r.ok THEN "destroy" ELSE "rollback"

\* Faulty variant: the checkpoint the daemon lists is released, whoever made it.
release_token_listed(p) == nm_checkpoint

\* The `checkpoint` apply() hands to with_nm_checkpoint: its own local.
release_token(p) == checkpoint[p]

\* Faulty variant: the inner `e` of `if let Err(e) = nm_checkpoint_rollback(..)`
\* is the one returned.
rollback_return_inner(e, rollback_result) ==
    IF rollback_result.ok THEN e ELSE rollback_result

\* Err(e) => { if let Err(e) = nm_checkpoint_rollback(..) { warn!(..) }; Err(e) }
rollback_return(e, rollback_result) == e

\* Ok(()) => { nm_checkpoint_destroy(checkpoint)?; Ok(()) }
with_nm_checkpoint_destroy(p) ==
    /\ pc[p] = "func_returned"
    /\ ~cfg[p].kernel_only
    /\ release_path(func_result[p]) = "destroy"
    /\ \E ok \in BOOLEAN :
        /\ DaemonDrops(p, release_token(p), ok)
        /\ Log(p, "checkpoint_destroy", release_token(p), 0, ok)
        /\ Return(p, IF ok THEN Ok ELSE Err("PluginFailure", "checkpoint_destroy", 0))
    /\ UNCHANGED <<cfg, checkpoint, count, retryVars, func_result>>

with_nm_checkpoint_rollback(p) ==
    /\ pc[p] = "func_returned"
    /\ ~cfg[p].kernel_only
    /\ release_path(func_result[p]) = "rollback"
    /\ \E ok \in BOOLEAN :
        /\ DaemonDrops(p, release_token(p), ok)
        /\ Log(p, "checkpoint_rollback", release_token(p), 0, ok)
        /\ Return(p, rollback_return(func_result[p],
              IF ok THEN Ok ELSE Err("PluginFailure", "checkpoint_rollback", 0)))
    /\ UNCHANGED <<cfg, checkpoint, count, retryVars, func_result>>

----------------------------------------------------------------------------
(* apply(), kernel-only mode: net_state.rs 205-226 *)

\* nispor_apply(..)?, then `if !self.no_verify`
apply_nispor_apply(p) ==
    /\ pc[p] = "nispor_apply"
    /\ \E ok \in BOOLEAN :
        /\ Log(p, "nispor_apply", NoCheckpoint, 0, ok)
        /\ IF ~ok
             THEN Return(p, Err("PluginFailure", "nispor_apply", 0))
             ELSE IF verify_change(cfg[p].no_verify)
                    THEN Goto(p, "with_retry") /\ UNCHANGED result
                    ELSE Return(p, Ok)
    /\ UNCHANGED <<cfg, checkpoint, count, retryVars, func_result, daemonVars>>

\* with_retry's result is what apply() returns.
apply_kernel_return(p) ==
    /\ pc[p] = "func_returned"
    /\ cfg[p].kernel_only
    /\ Return(p, func_result[p])
    /\ UNCHANGED <<cfg, checkpoint, calls, count, retryVars, func_result, daemonVars>>

----------------------------------------------------------------------------
(* The daemon's rollback timer *)

\* The rollback timeout given to CheckpointCreate runs out: the daemon rolls
\* back and forgets the checkpoint ("please wait its timeout or destroy it").
\* apply() extends the timeout once, after nm_apply; nothing keeps the timer
\* from running out before or after that.
nm_checkpoint_timeout ==
    /\ nm_checkpoint # NoCheckpoint
    /\ nm_checkpoint' = NoCheckpoint
    /\ dropped' = dropped \cup {[by |-> 0, token |-> nm_checkpoint]}
    /\ UNCHANGED <<pc, cfg, checkpoint, calls, count, retryVars, func_result,
                   result, next_token>>

----------------------------------------------------------------------------
(* Interfaces::set_up_priority, ifaces/inter_ifaces.rs 284-302, and the pass *)
(* it repeats (set_ifaces_up_priority)                                       *)

INTERFACES_SET_PRIORITY_MAX_RETRY == 4

\* The largest table of any shape, and the longest single chain of
\* controllers, that set_up_priority is run on.
MaxTreeIfaces == 4
MaxChainIfaces == 6

\* The priority every interface starts from.
UP_PRIORITY_START == 100

RECURSIVE InsertOrders(_)
InsertOrders(S) ==
    IF S = {} THEN {<<>>}
    ELSE UNION {{<<x>> \o rest : rest \in InsertOrders(S \ {x})} : x \in S}

MinOf(S) == CHOOSE x \in S : \A y \in S : x <= y

\* The ports of `name` that are in the table.
PortsOf(tbl, name) == {p \in DOMAIN tbl : tbl[p].controller = Some(name)}

\* An interface nothing is enslaved to has nothing to wait for.
NewIface(ctrl, has_ports) ==
    [controller |-> ctrl, up_priority |-> UP_PRIORITY_START, known |-> ~has_ports]

\* The tables of n interfaces named 1..n where `ctrl` gives each one's
\* controller: 0 for none, n + 1 for a controller that is not in the table.
TableOf(n, ctrl) ==
    [i \in 1..n |->
        NewIface(IF ctrl[i] = 0 THEN None ELSE Some(ctrl[i]),
                 \E j \in 1..n : ctrl[j] = i)]

TreeTables ==
    UNION {{TableOf(n, ctrl) :
                ctrl \in {c \in [1..n -> 0..(n + 1)] :
                            \A i \in 1..n : c[i] < i \/ c[i] = n + 1}} :
           n \in 1..MaxTreeIfaces}

ChainTables ==
    {TableOf(n, [i \in 1..n |-> i - 1]) : n \in 1..MaxChainIfaces}

\* One interface of the walk: an interface with at least one port of known
\* priority goes below the smallest of them.
set_iface_up_priority(tbl, name) ==
    LET known_ports == {p \in PortsOf(tbl, name) : tbl[p].known}
        below == MinOf({tbl[p].up_priority : p \in known_ports}) - 1
        new == IF below < tbl[name].up_priority THEN below
               ELSE tbl[name].up_priority
    IN  IF known_ports = {} THEN tbl
        ELSE [tbl EXCEPT ![name] = [@ EXCEPT !.up_priority = new, !.known = TRUE]]

\* One pass over the table in insertion order; what an interface gets is seen
\* by the interfaces walked after it.
RECURSIVE walk_insert_order(_, _, _)
walk_insert_order(tbl, order, i) ==
    IF i > Len(order) THEN tbl
    ELSE walk_insert_order(
             IF order[i] \in DOMAIN tbl THEN set_iface_up_priority(tbl, order[i])
             ELSE tbl,
             order, i + 1)

\* The pass returns true when it changed no priority.
set_ifaces_up_priority(tbl, order) ==
    LET after == walk_insert_order(tbl, order, 1)
    IN  [ifaces |-> after,
         converged |-> \A n \in DOMAIN tbl :
                          after[n].up_priority = tbl[n].up_priority]

\* `for _ in 0..INTERFACES_SET_PRIORITY_MAX_RETRY`
set_up_priority_loop_one_more(done_passes) ==
    done_passes <= INTERFACES_SET_PRIORITY_MAX_RETRY

set_up_priority_loop(done_passes) ==
    done_passes < INTERFACES_SET_PRIORITY_MAX_RETRY

\* `if set_ifaces_up_priority(self) { return Ok(()) }`
set_up_priority_returns_any(converged) == TRUE

set_up_priority_returns(converged) == converged

set_up_priority_pass ==
    /\ prio_result = Pending
    /\ set_up_priority_loop(Len(passes))
    /\ LET r == set_ifaces_up_priority(prio_ifaces, insert_order)
       IN  /\ prio_ifaces' = r.ifaces
           /\ passes' = Append(passes, r.converged)
           /\ prio_result' = IF set_up_priority_returns(r.converged) THEN Ok
                             ELSE Pending
    /\ UNCHANGED <<insert_order, applyVars, nmVars, diffVars, netVars, ioVars>>

set_up_priority_fail ==
    /\ prio_result = Pending
    /\ ~set_up_priority_loop(Len(passes))
    /\ prio_result' = Err("InvalidArgument", "set_up_priority", 0)
    /\ UNCHANGED <<prio_ifaces, insert_order, passes, applyVars, nmVars, diffVars, netVars, ioVars>>

----------------------------------------------------------------------------
(* nm/query_apply/route.rs *)

NM_IP_SETTING_ROUTE_TABLE_DEFAULT == 0
NM_IP_SETTING_ROUTE_METRIC_DEFAULT == -1
IPV6_METRIC_COHERCED_DEFAULT == 1024

NmIpRoute(dest, table, metric) == [dest |-> dest, table |-> table, metric |-> metric]

NmSettingIp(route_table, route_metric, routes) ==
    [route_table |-> route_table, route_metric |-> route_metric, routes |-> routes]

\* Option::filter(|v| *v != dflt) and Option::or
OptFilterNot(opt, dflt) == IF opt # None /\ opt[1] # dflt THEN opt ELSE None
OptOr(opt, other) == IF opt # None THEN opt ELSE other

\* ip_sett is an Option<&NmSettingIp>.
clone_normalized_routes(ip_sett, is_ipv6) ==
    LET default_table ==
            IF ip_sett = None THEN None
            ELSE OptFilterNot(ip_sett[1].route_table,
                              NM_IP_SETTING_ROUTE_TABLE_DEFAULT)
        metric ==
            IF ip_sett = None THEN None
            ELSE OptFilterNot(ip_sett[1].route_metric,
                              NM_IP_SETTING_ROUTE_METRIC_DEFAULT)
        default_metric ==
            IF is_ipv6 /\ metric = Some(0) THEN Some(IPV6_METRIC_COHERCED_DEFAULT)
            ELSE metric
        routes == IF ip_sett = None THEN <<>> ELSE ip_sett[1].routes
    IN  [i \in 1..Len(routes) |->
            NmIpRoute(routes[i].dest,
                      OptOr(routes[i].table, default_table),
                      OptOr(routes[i].metric, default_metric))]

SeqContains(seq, x) == \E i \in 1..Len(seq) : seq[i] = x

\* Faulty variant: the routes are compared as they are written, not normalized.
nm_setting_is_route_removed_raw(new_nm_sett, cur_nm_sett, is_ipv6) ==
    LET new_routes == IF new_nm_sett = None THEN <<>> ELSE new_nm_sett[1].routes
        cur_routes == IF cur_nm_sett = None THEN <<>> ELSE cur_nm_sett[1].routes
    IN  \E i \in 1..Len(cur_routes) : ~SeqContains(new_routes, cur_routes[i])

nm_setting_is_route_removed(new_nm_sett, cur_nm_sett, is_ipv6) ==
    LET new_routes == clone_normalized_routes(new_nm_sett, is_ipv6)
        cur_routes == clone_normalized_routes(cur_nm_sett, is_ipv6)
    IN  \E i \in 1..Len(cur_routes) : ~SeqContains(new_routes, cur_routes[i])

is_route_removed(new_nm_conn, cur_nm_conn) ==
    \/ nm_setting_is_route_removed(new_nm_conn.ipv4, cur_nm_conn.ipv4, FALSE)
    \/ nm_setting_is_route_removed(new_nm_conn.ipv6, cur_nm_conn.ipv6, TRUE)

----------------------------------------------------------------------------
(* apply_single_state, nm/apply.rs 111-216, and the profile steps it calls *)

NmConnection(uuid, iface_name, iface_type, ipv4, ipv6) ==
    [uuid |-> uuid, iface_name |-> iface_name, iface_type |-> iface_type,
     ipv4 |-> ipv4, ipv6 |-> ipv6]

Iface(name, iface_type, state, ipv4, ipv6) ==
    [name |-> name, iface_type |-> iface_type, state |-> state,
     ipv4 |-> ipv4, ipv6 |-> ipv6]

is_up(iface) == iface.state = "up"
is_down(iface) == iface.state = "down"

Uuids(conns) == {conns[i].uuid[1] : i \in {j \in 1..Len(conns) : conns[j].uuid # None}}

\* The profile of an interface among the existing ones: an active one first,
\* else the last one found.
get_exist_profile(exist_nm_conns, iface_name, iface_type, nm_ac_uuids) ==
    LET found == SelectSeq(exist_nm_conns,
                     LAMBDA c : c.iface_name = iface_name /\ c.iface_type = iface_type)
        active == SelectSeq(found,
                     LAMBDA c : c.uuid # None /\ c.uuid[1] \in nm_ac_uuids)
    IN  IF active # <<>> THEN Some(active[1])
        ELSE IF found # <<>> THEN Some(found[Len(found)])
        ELSE None

\* The profile an interface is saved as: it keeps the UUID of the profile the
\* interface already has.
iface_to_nm_connections(iface, exist_nm_conns, nm_ac_uuids) ==
    LET exist == get_exist_profile(exist_nm_conns, iface.name, iface.iface_type,
                                   nm_ac_uuids)
        uuid == IF exist # None /\ exist[1].uuid # None THEN exist[1].uuid
                ELSE Some("new-" \o iface.name)
    IN  <<NmConnection(uuid, iface.name, iface.iface_type, iface.ipv4, iface.ipv6)>>

RECURSIVE Flatten(_)
Flatten(seqs) ==
    IF seqs = <<>> THEN <<>> ELSE Head(seqs) \o Flatten(Tail(seqs))

\* Faulty variant: every active connection that is activated again is deactivated
\* first, whether it loses a route or not.
gen_nm_conn_need_to_deactivate_first_all(nm_conns_to_activate, activated_nm_conns) ==
    Flatten([i \in 1..Len(nm_conns_to_activate) |->
        LET nm_conn == nm_conns_to_activate[i]
            same == SelectSeq(activated_nm_conns,
                        LAMBDA c : c.uuid # None /\ c.uuid = nm_conn.uuid)
        IN  IF nm_conn.uuid # None /\ same # <<>> THEN <<same[1]>> ELSE <<>>])

gen_nm_conn_need_to_deactivate_first(nm_conns_to_activate, activated_nm_conns) ==
    Flatten([i \in 1..Len(nm_conns_to_activate) |->
        LET nm_conn == nm_conns_to_activate[i]
            same == SelectSeq(activated_nm_conns,
                        LAMBDA c : c.uuid # None /\ c.uuid = nm_conn.uuid)
        IN  IF nm_conn.uuid # None /\ same # <<>> /\ is_route_removed(nm_conn, same[1])
            THEN <<same[1]>> ELSE <<>>])

\* Lines 118-181: the lists apply_single_state works on.
apply_single_state_locals ==
    LET exist_nm_conns == nm_profiles
        nm_ac_uuids == nm_active
        activated_nm_conns ==
            SelectSeq(exist_nm_conns,
                LAMBDA c : c.uuid # None /\ c.uuid[1] \in nm_ac_uuids)
        nm_conns_to_activate ==
            Flatten([i \in 1..Len(net_state) |->
                IF net_state[i].iface_type # "unknown" /\ is_up(net_state[i])
                THEN iface_to_nm_connections(net_state[i], exist_nm_conns, nm_ac_uuids)
                ELSE <<>>])
        nm_conns_to_deactivate ==
            Flatten([i \in 1..Len(net_state) |->
                IF is_down(net_state[i])
                THEN get_exist_profile(exist_nm_conns, net_state[i].name,
                                       net_state[i].iface_type, nm_ac_uuids)
                ELSE <<>>])
    IN  [exist_nm_conns |-> exist_nm_conns,
         activated_nm_conns |-> activated_nm_conns,
         nm_conns_to_activate |-> nm_conns_to_activate,
         nm_conns_to_deactivate |-> nm_conns_to_deactivate,
         nm_conns_to_deactivate_first |->
             gen_nm_conn_need_to_deactivate_first(nm_conns_to_activate,
                                                  activated_nm_conns)]

NoLocals ==
    [exist_nm_conns |-> <<>>, activated_nm_conns |-> <<>>,
     nm_conns_to_activate |-> <<>>, nm_conns_to_deactivate |-> <<>>,
     nm_conns_to_deactivate_first |-> <<>>]

\* Faulty variant: the new profiles are saved before the connections losing routes
\* are deactivated.
apply_single_state_steps_save_first ==
    <<"save", "deactivate_first", "delete_exist", "activate", "deactivate_down">>

\* Lines 197-214, in the order of the code.
apply_single_state_steps ==
    <<"deactivate_first", "save", "delete_exist", "activate", "deactivate_down">>

StepIndex(step) ==
    CHOOSE i \in 1..Len(apply_single_state_steps) : apply_single_state_steps[i] = step

\* Faulty variant: a failed step does not stop apply_single_state.
nm_step_done_ignoring_error(step, arg, ok) ==
    /\ nm_calls' = Append(nm_calls, [op |-> step, arg |-> arg, ok |-> ok])
    /\ IF StepIndex(step) < Len(apply_single_state_steps)
       THEN /\ nm_pc' = apply_single_state_steps[StepIndex(step) + 1]
            /\ UNCHANGED nm_result
       ELSE /\ nm_pc' = "done"
            /\ nm_result' = Ok

\* A step returns: `?` ends apply_single_state on an error, else the next
\* step runs, and Ok(()) follows the last one.
nm_step_done(step, arg, ok) ==
    /\ nm_calls' = Append(nm_calls, [op |-> step, arg |-> arg, ok |-> ok])
    /\ IF ~ok
       THEN /\ nm_pc' = "done"
            /\ nm_result' = Err("PluginFailure", step, 0)
       ELSE IF StepIndex(step) < Len(apply_single_state_steps)
       THEN /\ nm_pc' = apply_single_state_steps[StepIndex(step) + 1]
            /\ UNCHANGED nm_result
       ELSE /\ nm_pc' = "done"
            /\ nm_result' = Ok

\* Lines 118-195: the queries and the lists; any of the calls may fail.
apply_single_state_prepare ==
    /\ nm_pc = "prepare"
    /\ \E ok \in BOOLEAN :
        IF ok
        THEN /\ nm_local' = apply_single_state_locals
             /\ nm_pc' = apply_single_state_steps[1]
             /\ UNCHANGED nm_result
        ELSE /\ nm_pc' = "done"
             /\ nm_result' = Err("PluginFailure", "prepare", 0)
             /\ UNCHANGED nm_local
    /\ UNCHANGED <<net_state, nm_profiles, nm_active, nm_calls, applyVars, prioVars, diffVars, netVars, ioVars>>

\* deactivate_nm_profiles(nm_api, nm_conns_to_deactivate_first, checkpoint)?
apply_single_state_deactivate_first ==
    /\ nm_pc = "deactivate_first"
    /\ \E ok \in BOOLEAN :
        /\ nm_step_done("deactivate_first", nm_local.nm_conns_to_deactivate_first, ok)
        /\ nm_active' = IF ok
                        THEN nm_active \ Uuids(nm_local.nm_conns_to_deactivate_first)
                        ELSE nm_active
    /\ UNCHANGED <<net_state, nm_profiles, nm_local, applyVars, prioVars, diffVars, netVars, ioVars>>

\* A saved profile replaces the one with its UUID.
SavedProfiles(profiles, conns) ==
    SelectSeq(profiles, LAMBDA c : c.uuid = None \/ c.uuid[1] \notin Uuids(conns))
        \o conns

\* save_nm_profiles(nm_api, nm_conns_to_activate, checkpoint)?
apply_single_state_save ==
    /\ nm_pc = "save"
    /\ \E ok \in BOOLEAN :
        /\ nm_step_done("save", nm_local.nm_conns_to_activate, ok)
        /\ nm_profiles' = IF ok
                          THEN SavedProfiles(nm_profiles, nm_local.nm_conns_to_activate)
                          ELSE nm_profiles
    /\ UNCHANGED <<net_state, nm_active, nm_local, applyVars, prioVars, diffVars, netVars, ioVars>>

\* An existing profile is superseded by a new profile of the same interface
\* with another UUID.
Superseded(exist_nm_conns, nm_conns_to_activate) ==
    SelectSeq(exist_nm_conns,
        LAMBDA c : \E i \in 1..Len(nm_conns_to_activate) :
            /\ nm_conns_to_activate[i].iface_name = c.iface_name
            /\ nm_conns_to_activate[i].iface_type = c.iface_type
            /\ nm_conns_to_activate[i].uuid # c.uuid)

\* delete_exist_profiles(nm_api, &exist_nm_conns, &nm_conns_to_activate)?
apply_single_state_delete_exist ==
    /\ nm_pc = "delete_exist"
    /\ \E ok \in BOOLEAN :
        /\ nm_step_done("delete_exist",
                        Superseded(nm_local.exist_nm_conns,
                                   nm_local.nm_conns_to_activate), ok)
        /\ nm_profiles' =
             IF ok
             THEN SelectSeq(nm_profiles,
                      LAMBDA c : ~SeqContains(
                          Superseded(nm_local.exist_nm_conns,
                                     nm_local.nm_conns_to_activate), c))
             ELSE nm_profiles
    /\ UNCHANGED <<net_state, nm_active, nm_local, applyVars, prioVars, diffVars, netVars, ioVars>>

\* activate_nm_profiles(nm_api, nm_conns_to_activate, checkpoint)?
apply_single_state_activate ==
    /\ nm_pc = "activate"
    /\ \E ok \in BOOLEAN :
        /\ nm_step_done("activate", nm_local.nm_conns_to_activate, ok)
        /\ nm_active' = IF ok
                        THEN nm_active \cup Uuids(nm_local.nm_conns_to_activate)
                        ELSE nm_active
    /\ UNCHANGED <<net_state, nm_profiles, nm_local, applyVars, prioVars, diffVars, netVars, ioVars>>

\* deactivate_nm_profiles(nm_api, nm_conns_to_deactivate, checkpoint)?
apply_single_state_deactivate_down ==
    /\ nm_pc = "deactivate_down"
    /\ \E ok \in BOOLEAN :
        /\ nm_step_done("deactivate_down", nm_local.nm_conns_to_deactivate, ok)
        /\ nm_active' = IF ok
                        THEN nm_active \ Uuids(nm_local.nm_conns_to_deactivate)
                        ELSE nm_active
    /\ UNCHANGED <<net_state, nm_profiles, nm_local, applyVars, prioVars, diffVars, netVars, ioVars>>

\* The IP settings the profiles and the desired interfaces carry.
Ipv4Settings ==
    {None,
     Some(NmSettingIp(None, None, <<>>)),
     Some(NmSettingIp(None, None, <<NmIpRoute("198.51.100.0/24", Some(100), Some(150))>>)),
     Some(NmSettingIp(Some(100), Some(150), <<NmIpRoute("198.51.100.0/24", None, None)>>)),
     Some(NmSettingIp(Some(0), Some(-1), <<NmIpRoute("198.51.100.0/24", None, None)>>))}

Ipv6Settings ==
    {None,
     Some(NmSettingIp(None, Some(0), <<NmIpRoute("2001:db8::/64", Some(100), None)>>)),
     Some(NmSettingIp(None, None, <<NmIpRoute("2001:db8::/64", Some(100), Some(1024))>>)),
     Some(NmSettingIp(None, None, <<NmIpRoute("2001:db8::/64", Some(100), Some(0))>>))}

----------------------------------------------------------------------------
(* The interface table, ifaces/inter_ifaces.rs 30-132 *)

\* The interface names of the model, in alphabetical order.
IfaceNames == <<"bond0", "br0", "eth1", "eth2", "vlan1", "vlan2">>

NameRank(name) == CHOOSE i \in 1..Len(IfaceNames) : IfaceNames[i] = name

Interface(name, iface_type, state, parent, mtu) ==
    [name |-> name, iface_type |-> iface_type, state |-> state,
     parent |-> parent, mtu |-> mtu, ipv4 |-> None,
     copy_mac_from |-> None, mac_address |-> None, permanent_mac_address |-> None,
     routes |-> None, rules |-> None,
     controller |-> None, up_priority |-> UP_PRIORITY_START, known |-> TRUE]

\* The interface with copy-mac-from, its MAC address and its permanent one.
WithMac(iface, copy_mac_from, mac_address, permanent_mac_address) ==
    [iface EXCEPT !.copy_mac_from = copy_mac_from, !.mac_address = mac_address,
                  !.permanent_mac_address = permanent_mac_address]

\* The IPv4 configuration of an interface: DHCP on or off, and its addresses
\* (the dynamic ones when current has DHCP on).
InterfaceIp(dhcp, addresses) == [dhcp |-> dhcp, addresses |-> addresses]

WithIpv4(iface, ip) == [iface EXCEPT !.ipv4 = Some(ip)]

\* OVS bridges live in user space; an interface of unknown type is kept with
\* them (resolve_unknown_ifaces looks for it in user_ifaces).
is_userspace_type(iface_type) == iface_type \in {"ovs-bridge", "unknown"}
is_userspace(iface) == is_userspace_type(iface.iface_type)

\* Everything but real hardware.
is_virtual(iface) == iface.iface_type \notin {"ethernet", "unknown"}

is_absent(iface) == iface.state = "absent"

\* VLAN and the like sit on a parent.
parent(iface) == iface.parent

clone_name_type_only(iface) ==
    Interface(iface.name, iface.iface_type, "up", None, None)

EmptyInterfaces == [kernel_ifaces |-> <<>>, user_ifaces |-> <<>>, insert_order |-> <<>>]

\* HashMap::insert
MapInsert(map, key, value) ==
    [k \in DOMAIN map \cup {key} |-> IF k = key THEN value ELSE map[k]]

push(ifaces, iface) ==
    [kernel_ifaces |->
        IF is_userspace(iface) THEN ifaces.kernel_ifaces
        ELSE MapInsert(ifaces.kernel_ifaces, iface.name, iface),
     user_ifaces |->
        IF is_userspace(iface)
        THEN MapInsert(ifaces.user_ifaces, <<iface.name, iface.iface_type>>, iface)
        ELSE ifaces.user_ifaces,
     insert_order |-> Append(ifaces.insert_order, <<iface.name, iface.iface_type>>)]

RECURSIVE push_all(_, _)
push_all(ifaces, seq) ==
    IF seq = <<>> THEN ifaces ELSE push_all(push(ifaces, Head(seq)), Tail(seq))

\* The interfaces of both maps.
AllIfaces(ifaces) ==
    {ifaces.kernel_ifaces[n] : n \in DOMAIN ifaces.kernel_ifaces}
        \cup {ifaces.user_ifaces[k] : k \in DOMAIN ifaces.user_ifaces}

\* The order to_vec sorts into: by up_priority, then by name.  The kernel
\* interface stands before a user-space one of the same name: it is pushed
\* first, and on the small tables used with this operator both sorts keep
\* equal keys in place.  to_vec_outcomes below leaves the ties open.
ToVecBefore(a, b) ==
    \/ a.up_priority < b.up_priority
    \/ /\ a.up_priority = b.up_priority
       /\ \/ NameRank(a.name) < NameRank(b.name)
          \/ a.name = b.name /\ ~is_userspace(a) /\ is_userspace(b)

RECURSIVE SortIfaces(_)
SortIfaces(S) ==
    IF S = {} THEN <<>>
    ELSE LET first == CHOOSE a \in S : \A b \in S \ {a} : ToVecBefore(a, b)
         IN  <<first>> \o SortIfaces(S \ {first})

to_vec(ifaces) == SortIfaces(AllIfaces(ifaces))

\* Some(interface) or None
get_iface(ifaces, iface_name, iface_type) ==
    LET by_name == {k \in DOMAIN ifaces.user_ifaces : k[1] = iface_name}
    IN  IF iface_type = "unknown"
        THEN IF iface_name \in DOMAIN ifaces.kernel_ifaces
             THEN Some(ifaces.kernel_ifaces[iface_name])
             ELSE IF by_name # {}
             THEN Some(ifaces.user_ifaces[CHOOSE k \in by_name : TRUE])
             ELSE None
        ELSE IF is_userspace_type(iface_type)
        THEN IF <<iface_name, iface_type>> \in DOMAIN ifaces.user_ifaces
             THEN Some(ifaces.user_ifaces[<<iface_name, iface_type>>])
             ELSE None
        ELSE IF iface_name \in DOMAIN ifaces.kernel_ifaces
             THEN Some(ifaces.kernel_ifaces[iface_name])
             ELSE None

----------------------------------------------------------------------------
(* Interfaces::verify, ifaces/inter_ifaces.rs 159-193 and 448-482 *)

\* Faulty variant: real hardware that is still up passes.
verify_desire_absent_but_found_virtual(des_iface, cur_iface) ==
    IF is_virtual(cur_iface) THEN Err("VerificationError", des_iface.name, 0)
    ELSE Ok

\* Ok when the absent interface found in current is real hardware that is
\* down.
verify_desire_absent_but_found_in_current(des_iface, cur_iface) ==
    IF is_virtual(cur_iface) THEN Err("VerificationError", des_iface.name, 0)
    ELSE IF is_up(cur_iface) THEN Err("VerificationError", des_iface.name, 0)
    ELSE Ok

\* What the desired interface states must be found in the current one.
iface_verify(iface, cur_iface) ==
    IF /\ iface.iface_type = cur_iface.iface_type
       /\ iface.state = cur_iface.state
       /\ iface.mtu = None \/ iface.mtu = cur_iface.mtu
       /\ iface.parent = None \/ iface.parent = cur_iface.parent
    THEN Ok
    ELSE Err("VerificationError", iface.name, 0)

\* Faulty variant: a desired interface that current lacks passes.
verify_iface_missing_ok(iface, cur_ifaces) ==
    LET cur_iface == get_iface(cur_ifaces, iface.name, iface.iface_type)
    IN  IF is_absent(iface) \/ (is_virtual(iface) /\ is_down(iface))
        THEN IF cur_iface # None
             THEN verify_desire_absent_but_found_in_current(iface, cur_iface[1])
             ELSE Ok
        ELSE IF cur_iface # None THEN iface_verify(iface, cur_iface[1])
        ELSE Ok

\* The body of verify's loop for one desired interface.
verify_iface(iface, cur_ifaces) ==
    LET cur_iface == get_iface(cur_ifaces, iface.name, iface.iface_type)
    IN  IF is_absent(iface) \/ (is_virtual(iface) /\ is_down(iface))
        THEN IF cur_iface # None
             THEN verify_desire_absent_but_found_in_current(iface, cur_iface[1])
             ELSE Ok
        ELSE IF cur_iface # None THEN iface_verify(iface, cur_iface[1])
        ELSE Err("VerificationError", iface.name, 0)

\* The first error of the loop, else Ok.  (No interface of the model is a
\* controller: remove_unknown_type_port leaves the clone of current as it is.)
verify(ifaces, cur_ifaces) ==
    LET vec == to_vec(ifaces)
        failed == {i \in 1..Len(vec) : verify_iface(vec[i], cur_ifaces) # Ok}
    IN  IF failed = {} THEN Ok
        ELSE verify_iface(vec[MinOf(failed)], cur_ifaces)

----------------------------------------------------------------------------
(* Interfaces::gen_state_for_apply, ifaces/inter_ifaces.rs 226-282, 484-544 *)

COPY_MAC_ALLOWED_IFACE_TYPES == {"bond", "linux-bridge", "ovs-interface"}

is_opt_str_empty(opt_string) ==
    IF opt_string # None THEN opt_string[1] = "" ELSE TRUE

\* Faulty variant: the runtime MAC address is preferred to the permanent one.
copied_mac_runtime_first(cur_iface) ==
    IF ~is_opt_str_empty(cur_iface.mac_address)
    THEN cur_iface.mac_address
    ELSE IF ~is_opt_str_empty(cur_iface.permanent_mac_address)
    THEN cur_iface.permanent_mac_address
    ELSE None

\* The MAC address taken from the source interface: the permanent one unless
\* it is empty, else the runtime one unless it is empty, else none.
copied_mac(cur_iface) ==
    IF ~is_opt_str_empty(cur_iface.permanent_mac_address)
    THEN cur_iface.permanent_mac_address
    ELSE IF ~is_opt_str_empty(cur_iface.mac_address)
    THEN cur_iface.mac_address
    ELSE None

\* The body of apply_copy_mac_from's loop for one desired kernel interface.
copy_mac_from(iface, cur_ifaces) ==
    IF iface.iface_type \notin COPY_MAC_ALLOWED_IFACE_TYPES \/ iface.copy_mac_from = None
    THEN [result |-> Ok, iface |-> iface]
    ELSE LET src_iface_name == iface.copy_mac_from[1]
         IN  IF src_iface_name \notin DOMAIN cur_ifaces.kernel_ifaces
             THEN [result |-> Err("InvalidArgument", iface.name, 0), iface |-> iface]
             ELSE LET mac == copied_mac(cur_ifaces.kernel_ifaces[src_iface_name])
                  IN  IF mac = None
                      THEN [result |-> Err("InvalidArgument", iface.name, 1),
                            iface |-> iface]
                      ELSE [result |-> Ok, iface |-> [iface EXCEPT !.mac_address = mac]]

\* The desired kernel interfaces the loop of apply_copy_mac_from does not
\* skip; the place iter_mut() gives to the others changes nothing.
copy_mac_from_asked(self) ==
    {n \in DOMAIN self.kernel_ifaces :
        /\ self.kernel_ifaces[n].iface_type \in COPY_MAC_ALLOWED_IFACE_TYPES
        /\ self.kernel_ifaces[n].copy_mac_from # None}

\* The loop over self.kernel_ifaces.iter_mut(), `keys` being the order in
\* which it comes to the interfaces it does not skip; it stops at the first
\* error.
RECURSIVE apply_copy_mac_from(_, _, _)
apply_copy_mac_from(self, cur_ifaces, keys) ==
    IF keys = <<>> THEN [result |-> Ok, ifaces |-> self]
    ELSE LET r == copy_mac_from(self.kernel_ifaces[Head(keys)], cur_ifaces)
             next == [self EXCEPT !.kernel_ifaces[Head(keys)] = r.iface]
         IN  IF r.result # Ok THEN [result |-> r.result, ifaces |-> self]
             ELSE apply_copy_mac_from(next, cur_ifaces, Tail(keys))

\* set_up_priority on a table: the passes are repeated until one converges
\* or the loop runs out.
RECURSIVE set_up_priority_run(_, _, _)
set_up_priority_run(tbl, order, done_passes) ==
    IF ~set_up_priority_loop(done_passes)
    THEN [ok |-> FALSE, ifaces |-> tbl]
    ELSE LET r == set_ifaces_up_priority(tbl, order)
         IN  IF set_up_priority_returns(r.converged)
             THEN [ok |-> TRUE, ifaces |-> r.ifaces]
             ELSE set_up_priority_run(r.ifaces, order, done_passes + 1)

\* self.set_up_priority()?  The priorities found are written to both maps.
set_up_priority(ifaces) ==
    LET names == {ifaces.insert_order[i][1] : i \in 1..Len(ifaces.insert_order)}
        byName == [n \in names |->
                      CHOOSE x \in AllIfaces(ifaces) : x.name = n]
        order == [i \in 1..Len(ifaces.insert_order) |-> ifaces.insert_order[i][1]]
        r == set_up_priority_run(byName, order, 0)
    IN  [ok |-> r.ok,
         ifaces |->
            [kernel_ifaces |->
                [n \in DOMAIN ifaces.kernel_ifaces |->
                    [ifaces.kernel_ifaces[n] EXCEPT
                        !.up_priority = r.ifaces[n].up_priority]],
             user_ifaces |->
                [k \in DOMAIN ifaces.user_ifaces |->
                    [ifaces.user_ifaces[k] EXCEPT
                        !.up_priority = r.ifaces[k[1]].up_priority]],
             insert_order |-> ifaces.insert_order]]

\* Faulty variant: every current interface of that name matches, whatever
\* the type to delete.
gen_ifaces_to_del_by_name(del_iface, cur_ifaces) ==
    LET vec == to_vec(cur_ifaces)
    IN  Flatten([i \in 1..Len(vec) |->
            IF vec[i].name = del_iface.name
            THEN <<[del_iface EXCEPT !.iface_type = vec[i].iface_type]>>
            ELSE <<>>])

\* One entry per current interface of that name, and of that type unless the
\* type to delete is unknown; each takes the type found in current.
gen_ifaces_to_del(del_iface, cur_ifaces) ==
    LET vec == to_vec(cur_ifaces)
    IN  Flatten([i \in 1..Len(vec) |->
            IF /\ vec[i].name = del_iface.name
               /\ \/ del_iface.iface_type = "unknown"
                  \/ del_iface.iface_type = vec[i].iface_type
            THEN <<[del_iface EXCEPT !.iface_type = vec[i].iface_type]>>
            ELSE <<>>])

\* Faulty variant: the port of a controller that is deleted is an orphan too.
is_orphan_or_port(cur_iface, del_ifaces, chg_ifaces) ==
    LET up == IF cur_iface.name \in DOMAIN chg_ifaces.kernel_ifaces
              THEN parent(chg_ifaces.kernel_ifaces[cur_iface.name])
              ELSE parent(cur_iface)
    IN  /\ \/ up # None /\ up[1] \in DOMAIN del_ifaces.kernel_ifaces
           \/ /\ cur_iface.controller # None
              /\ cur_iface.controller[1] \in DOMAIN del_ifaces.kernel_ifaces
        /\ cur_iface.name \notin DOMAIN del_ifaces.kernel_ifaces

\* The test of the loop body: the parent, read from the change set when the
\* interface is there and from current otherwise, is in del_ifaces and the
\* interface is not.
is_orphan(cur_iface, del_ifaces, chg_ifaces) ==
    LET up == IF cur_iface.name \in DOMAIN chg_ifaces.kernel_ifaces
              THEN parent(chg_ifaces.kernel_ifaces[cur_iface.name])
              ELSE parent(cur_iface)
    IN  /\ up # None
        /\ up[1] \in DOMAIN del_ifaces.kernel_ifaces
        /\ cur_iface.name \notin DOMAIN del_ifaces.kernel_ifaces

\* The orders current.kernel_ifaces.values() may walk the map in: a HashMap
\* gives its values in any order.
HashMapValues(map) == InsertOrders(DOMAIN map)

\* One walk over current's kernel interfaces, in the order `values`.
RECURSIVE mark_orphan_interface_as_absent(_, _, _, _)
mark_orphan_interface_as_absent(del_ifaces, chg_ifaces, cur_ifaces, values) ==
    IF values = <<>> THEN del_ifaces
    ELSE LET cur_iface == cur_ifaces.kernel_ifaces[Head(values)]
             new_iface == [clone_name_type_only(cur_iface) EXCEPT !.state = "absent"]
         IN  mark_orphan_interface_as_absent(
                 IF is_orphan(cur_iface, del_ifaces, chg_ifaces)
                 THEN push(del_ifaces, new_iface)
                 ELSE del_ifaces,
                 chg_ifaces, cur_ifaces, Tail(values))

\* Faulty variant: current's kernel map is not looked at.
classify_as_add(iface, cur_ifaces) ==
    IF is_absent(iface) THEN "del" ELSE "add"

\* Where the loop of gen_state_for_apply sends a desired interface.
classify(iface, cur_ifaces) ==
    IF is_absent(iface) THEN "del"
    ELSE IF iface.name \in DOMAIN cur_ifaces.kernel_ifaces THEN "chg"
    ELSE "add"

NoDiff ==
    [ok |-> TRUE, err |-> Ok, add |-> EmptyInterfaces, chg |-> EmptyInterfaces,
     del |-> EmptyInterfaces]

\* gen_state_for_apply returned Err(e): no change set comes back.
GenFailed(e) == [NoDiff EXCEPT !.ok = FALSE, !.err = e]

\* Faulty variant: the change entry keeps the type the desire declared.
chg_iface_as_desired(iface, cur_iface) == iface

\* let mut chg_iface = iface.clone(); chg_iface.set_iface_type(cur_iface.iface_type())
chg_iface(iface, cur_iface) ==
    [iface EXCEPT !.iface_type = cur_iface.iface_type]

\* set_up_priority and the loop over self.to_vec().  The desired interfaces
\* of the model have no port list: handle_changed_ports and
\* check_overbook_ports leave the tables as they are.
gen_state_for_apply_loop(self, cur_ifaces) ==
    LET prio == set_up_priority(self)
        vec == to_vec(prio.ifaces)
        add_ifaces ==
            push_all(EmptyInterfaces,
                SelectSeq(vec, LAMBDA iface : classify(iface, cur_ifaces) = "add"))
        chg_ifaces ==
            push_all(EmptyInterfaces,
                Flatten([i \in 1..Len(vec) |->
                    IF classify(vec[i], cur_ifaces) = "chg"
                    THEN <<chg_iface(vec[i], cur_ifaces.kernel_ifaces[vec[i].name])>>
                    ELSE <<>>]))
        del_ifaces ==
            push_all(EmptyInterfaces,
                Flatten([i \in 1..Len(vec) |->
                    IF classify(vec[i], cur_ifaces) = "del"
                    THEN gen_ifaces_to_del(vec[i], cur_ifaces)
                    ELSE <<>>]))
    IN  IF ~prio.ok
        THEN GenFailed(Err("InvalidArgument", "set_up_priority", 0))
        ELSE [ok |-> TRUE, err |-> Ok, add |-> add_ifaces, chg |-> chg_ifaces,
              del |-> del_ifaces]

\* When DHCP goes from on to off: the change entry of a kernel interface that
\* turns DHCP off and gives no address, while current has DHCP on for it,
\* takes the addresses current has.
dhcp_on_to_off(iface, cur_ifaces) ==
    /\ iface.name \in DOMAIN cur_ifaces.kernel_ifaces
    /\ iface.ipv4 # None
    /\ ~iface.ipv4[1].dhcp
    /\ iface.ipv4[1].addresses = {}
    /\ cur_ifaces.kernel_ifaces[iface.name].ipv4 # None
    /\ cur_ifaces.kernel_ifaces[iface.name].ipv4[1].dhcp

include_current_ip_address_if_dhcp_on_to_off(chg_ifaces, cur_ifaces) ==
    [chg_ifaces EXCEPT !.kernel_ifaces =
        [n \in DOMAIN chg_ifaces.kernel_ifaces |->
            IF dhcp_on_to_off(chg_ifaces.kernel_ifaces[n], cur_ifaces)
            THEN WithIpv4(chg_ifaces.kernel_ifaces[n],
                     InterfaceIp(FALSE, cur_ifaces.kernel_ifaces[n].ipv4[1].addresses))
            ELSE chg_ifaces.kernel_ifaces[n]]]

\* Faulty variant: the change set is left as the loop made it.
gen_state_for_apply_end_as_looped(looped, cur_ifaces, values) ==
    IF ~looped.ok THEN looped
    ELSE [looped EXCEPT !.del =
             mark_orphan_interface_as_absent(looped.del, looped.chg, cur_ifaces, values)]

\* What follows the loop: the change set takes the addresses of a DHCP that
\* is turned off, and the orphans join the delete set.
gen_state_for_apply_end(looped, cur_ifaces, values) ==
    IF ~looped.ok THEN looped
    ELSE LET chg_ifaces ==
                 include_current_ip_address_if_dhcp_on_to_off(looped.chg, cur_ifaces)
         IN  [looped EXCEPT
                 !.chg = chg_ifaces,
                 !.del = mark_orphan_interface_as_absent(looped.del, chg_ifaces,
                             cur_ifaces, values)]

\* self.apply_copy_mac_from(current)? comes first: its error is returned
\* before anything else is looked at.
gen_state_for_apply(self, cur_ifaces, keys, values) ==
    LET copied == apply_copy_mac_from(self, cur_ifaces, keys)
    IN  IF copied.result # Ok THEN GenFailed(copied.result)
        ELSE gen_state_for_apply_end(
                 gen_state_for_apply_loop(copied.ifaces, cur_ifaces), cur_ifaces, values)

----------------------------------------------------------------------------
(* One round: diff, apply, retrieve, verify, and the diff once more *)

\* desire_state_to_apply.gen_state_for_apply(&cur_net_state)?
diff_gen_state_for_apply ==
    /\ diff_pc \in {"diff", "diff_again"}
    /\ \E keys \in InsertOrders(copy_mac_from_asked(desire)),
          values \in HashMapValues(current.kernel_ifaces) :
        LET out == gen_state_for_apply(desire, current, keys, values)
        IN  /\ diff_out' = out
            /\ diff_pc' = IF ~out.ok THEN "failed"
                          ELSE IF diff_pc = "diff" THEN "apply"
                          ELSE "done"
    /\ UNCHANGED <<desire, current, resolved, verified, applyVars, prioVars, nmVars, netVars, ioVars>>

\* The desired interfaces a caller may ask for.
Eth1Asked ==
    {Interface("eth1", "ethernet", "up", None, m) : m \in {None, Some(1500)}}
    \cup {Interface("eth1", "ethernet", st, None, None) : st \in {"down", "absent"}}
Vlan1Asked ==
    {Interface("vlan1", "vlan", st, Some("eth1"), None) : st \in {"up", "down", "absent"}}
Br0Asked ==
    {Interface("br0", "ovs-bridge", st, None, None) : st \in {"up", "down", "absent"}}

\* The interfaces the host may be found with.
Eth1Found ==
    {Interface("eth1", "ethernet", "up", None, Some(m)) : m \in {1500, 9000}}
    \cup {Interface("eth1", "ethernet", "down", None, Some(1500))}
Vlan1Found ==
    {Interface("vlan1", "vlan", st, Some("eth1"), Some(1500)) : st \in {"up", "down"}}
Br0Found ==
    {Interface("br0", "ovs-bridge", "up", None, None)}
Br0KernelFound ==
    {Interface("br0", "ovs-interface", "up", None, Some(1500))}

Opt(S) == {<<>>} \cup {<<x>> : x \in S}

DesiredTables ==
    {push_all(EmptyInterfaces, a \o b \o c) :
        a \in Opt(Eth1Asked), b \in Opt(Vlan1Asked), c \in Opt(Br0Asked)}

CurrentTables ==
    {push_all(EmptyInterfaces, a \o b \o c \o d) :
        a \in Opt(Eth1Found), b \in Opt(Vlan1Found), c \in Opt(Br0Found),
        d \in Opt(Br0KernelFound)}

\* The backends apply what the diff gave and the state is retrieved again:
\* the host may be found in any state.
diff_apply_retrieve ==
    /\ diff_pc = "apply"
    /\ current' \in CurrentTables
    /\ diff_out' = NoDiff
    /\ diff_pc' = "verify"
    /\ UNCHANGED <<desire, resolved, verified, applyVars, prioVars, nmVars, netVars, ioVars>>

\* desire_state_to_verify.verify(&new_cur_net_state)
diff_verify ==
    /\ diff_pc = "verify"
    /\ verified' = verify(desire, current)
    /\ diff_pc' = IF verify(desire, current) = Ok THEN "diff_again" ELSE "failed"
    /\ UNCHANGED <<desire, current, diff_out, resolved, applyVars, prioVars, nmVars, netVars, ioVars>>

----------------------------------------------------------------------------
(* Interfaces::resolve_unknown_ifaces, ifaces/inter_ifaces.rs 314-387 *)

NotResolved == [result |-> Pending, ifaces |-> EmptyInterfaces]

\* The current interfaces of that name, as the loop over to_vec() finds them.
same_named(cur_ifaces, iface_name) ==
    SelectSeq(to_vec(cur_ifaces), LAMBDA cur_iface : cur_iface.name = iface_name)

\* Faulty variant: the first of several current interfaces of the name is
\* taken.
found_iface_resolves_first(found_iface) == Len(found_iface) >= 1

\* match found_iface.len() { 0 => Err, 1 => resolved, _ => Err }
found_iface_resolves(found_iface) == Len(found_iface) = 1

\* What one entry of type Unknown adds to resolved_ifaces: an absent one, a
\* clone of each current interface of its name, marked absent; another one,
\* itself under the type of the one current interface of its name (written to
\* JSON and read back, which gives it the variant of that type).
resolve_unknown_iface(iface, cur_ifaces) ==
    LET matches == same_named(cur_ifaces, iface.name)
        found_iface == [i \in 1..Len(matches) |->
                           [iface EXCEPT !.iface_type = matches[i].iface_type]]
    IN  IF is_absent(iface)
        THEN [ok |-> TRUE,
              ifaces |-> [i \in 1..Len(matches) |->
                             [matches[i] EXCEPT !.state = "absent"]]]
        ELSE IF found_iface_resolves(found_iface)
        THEN [ok |-> TRUE, ifaces |-> <<found_iface[1]>>]
        ELSE [ok |-> FALSE, ifaces |-> <<>>]

\* Faulty variant: the Unknown entry stays in the table.
remove_unknown_kept(self, new_iface) == self

\* self.user_ifaces.remove(&(new_iface.name(), InterfaceType::Unknown))
remove_unknown(self, new_iface) ==
    [self EXCEPT !.user_ifaces =
        [k \in DOMAIN self.user_ifaces \ {<<new_iface.name, "unknown">>}
            |-> self.user_ifaces[k]]]

\* for new_iface in resolved_ifaces { remove; self.push(new_iface) }
RECURSIVE replace_resolved(_, _)
replace_resolved(self, resolved_ifaces) ==
    IF resolved_ifaces = <<>> THEN self
    ELSE replace_resolved(
             push(remove_unknown(self, Head(resolved_ifaces)), Head(resolved_ifaces)),
             Tail(resolved_ifaces))

\* The keys of user_ifaces in the order `keys`, the order the HashMap is
\* iterated in: the first entry that fails to resolve ends the call, and the
\* table is written only when all resolved.
resolve_unknown_ifaces(self, cur_ifaces, keys) ==
    LET unknown == SelectSeq(keys, LAMBDA k : k[2] = "unknown")
        each == [i \in 1..Len(unknown) |->
                    resolve_unknown_iface(self.user_ifaces[unknown[i]], cur_ifaces)]
        failed == {i \in 1..Len(unknown) : ~each[i].ok}
    IN  IF failed # {}
        THEN [result |-> Err("InvalidArgument", unknown[MinOf(failed)][1],
                             Len(same_named(cur_ifaces, unknown[MinOf(failed)][1]))),
              ifaces |-> self]
        ELSE [result |-> Ok,
              ifaces |-> replace_resolved(self,
                             Flatten([i \in 1..Len(unknown) |-> each[i].ifaces]))]

\* desire_state_to_apply.interfaces.resolve_unknown_ifaces(&cur_net_state.interfaces)
diff_resolve_unknown_ifaces ==
    /\ diff_pc = "resolve"
    /\ \E keys \in HashMapValues(desire.user_ifaces) :
          resolved' = resolve_unknown_ifaces(desire, current, keys)
    /\ diff_pc' = "resolved"
    /\ UNCHANGED <<desire, current, diff_out, verified, applyVars, prioVars, nmVars, netVars, ioVars>>

\* Desires with interfaces of no type: br0, which current may have as an OVS
\* bridge, as an internal interface or as both, and eth1.
UnknownDesires ==
    {push_all(EmptyInterfaces, a \o b \o c) :
        a \in Opt({Interface("br0", "unknown", st, None, None) : st \in {"up", "absent"}}
                  \cup {Interface("br0", "ovs-bridge", "up", None, None)}),
        b \in Opt({Interface("eth1", "unknown", "up", None, m) : m \in {None, Some(9000)}}
                  \cup {Interface("eth1", "unknown", st, None, None) :
                            st \in {"down", "absent"}}
                  \cup {Interface("eth1", "ethernet", "up", None, None)}),
        c \in Opt(Vlan1Asked)}

----------------------------------------------------------------------------
(* gen_state_for_apply on its own: what it may be given *)

WithController(iface, ctrl) == [iface EXCEPT !.controller = Some(ctrl)]

\* Desires that name bond0, br0 and eth1 with a type that current may or may
\* not agree with, or with no type at all when absent; br0 may be asked for
\* as the OVS bridge, as its internal interface, or as both.
TypedDesires ==
    {push_all(EmptyInterfaces, a \o b \o c) :
        a \in Opt({Interface("bond0", t, "up", None, None) :
                       t \in {"bond", "linux-bridge"}}
                  \cup {Interface("bond0", t, "absent", None, None) :
                            t \in {"bond", "unknown"}}),
        b \in {<<>>,
               <<Interface("br0", "ovs-bridge", "up", None, None),
                 Interface("br0", "ovs-interface", "up", None, None)>>,
               <<Interface("br0", "unknown", "absent", None, None)>>}
              \cup {<<Interface("br0", t, st, None, None)>> :
                        t \in {"ovs-bridge", "ovs-interface"}, st \in {"up", "absent"}},
        c \in Opt({Interface("eth1", "ethernet", st, None, None) :
                       st \in {"up", "down"}})}

TypedCurrents ==
    {push_all(EmptyInterfaces, a \o b \o c \o d) :
        a \in Opt({Interface("bond0", "bond", "up", None, Some(1500))}),
        b \in Opt(Br0KernelFound), c \in Opt(Br0Found), d \in Opt(Eth1Found)}

\* Desires over a host with stacked interfaces: vlan2 on vlan1 on eth1 or on
\* bond0, and eth1 and eth2 as the ports of bond0.
StackedDesires ==
    {push_all(EmptyInterfaces, a \o b \o c \o d) :
        a \in Opt({Interface("eth1", "ethernet", "absent", None, None)}),
        b \in Opt({Interface("vlan1", "vlan", "up", up, None) :
                       up \in {None, Some("eth1"), Some("bond0")}}
                  \cup {Interface("vlan1", "vlan", "absent", None, None)}),
        c \in Opt({Interface("bond0", "bond", st, None, None) : st \in {"up", "absent"}}),
        d \in Opt({Interface("vlan2", "vlan", "absent", None, None)})}

StackedBases ==
    {<<>>,
     <<Interface("eth1", "ethernet", "up", None, Some(1500))>>,
     <<Interface("bond0", "bond", "up", None, Some(1500))>>,
     <<Interface("bond0", "bond", "up", None, Some(1500)),
       Interface("eth1", "ethernet", "up", None, Some(1500))>>,
     <<Interface("bond0", "bond", "up", None, Some(1500)),
       WithController(Interface("eth1", "ethernet", "up", None, Some(1500)), "bond0"),
       WithController(Interface("eth2", "ethernet", "up", None, Some(1500)), "bond0")>>}

StackedVlans(base) ==
    LET found == {base[i].name : i \in 1..Len(base)}
        unders == {n \in {"eth1", "bond0"} : n \in found /\
                      \A i \in 1..Len(base) : base[i].name = n => base[i].controller = None}
    IN  {<<>>}
        \cup {<<Interface("vlan1", "vlan", "up", Some(n), Some(1500))>> : n \in unders}
        \cup {<<Interface("vlan1", "vlan", "up", Some(n), Some(1500)),
                Interface("vlan2", "vlan", "up", Some("vlan1"), Some(1500))>> : n \in unders}

StackedCurrents ==
    UNION {{push_all(EmptyInterfaces, base \o vlans) : vlans \in StackedVlans(base)} :
              base \in StackedBases}

\* eth1 desired with DHCP on, or off with or without static addresses, over
\* a host where eth1 has DHCP on (with or without a lease) or off.
DhcpDesires ==
    {push_all(EmptyInterfaces, <<WithIpv4(Interface("eth1", "ethernet", st, None, None), ip)>>) :
        st \in {"up", "down"},
        ip \in {InterfaceIp(TRUE, {}), InterfaceIp(FALSE, {}),
                InterfaceIp(FALSE, {"192.0.2.20/24"})}}
    \cup {push_all(EmptyInterfaces, <<Interface("eth1", "ethernet", "up", None, None)>>)}

DhcpCurrents ==
    {EmptyInterfaces}
    \cup {push_all(EmptyInterfaces,
              <<WithIpv4(Interface("eth1", "ethernet", "up", None, Some(1500)), ip)>>) :
              ip \in {InterfaceIp(TRUE, {}), InterfaceIp(TRUE, {"192.0.2.10/24"}),
                      InterfaceIp(TRUE, {"192.0.2.10/24", "192.0.2.11/24"}),
                      InterfaceIp(FALSE, {"192.0.2.10/24"})}}
    \cup {push_all(EmptyInterfaces,
              <<Interface("eth1", "ethernet", "up", None, Some(1500))>>)}

\* bond0 desired under a type that may copy a MAC address or under one that
\* may not, with or without copy-mac-from and a MAC address of its own, alone
\* or with a Linux bridge br0 that copies eth1's, over a host where the
\* source eth1 has a permanent and a runtime MAC address, either, or none,
\* and where br0 is an OVS bridge only.
MacDesires ==
    {push_all(EmptyInterfaces,
         <<WithMac(Interface("bond0", t, "up", None, None), src, mac, None)>> \o e) :
        t \in {"bond", "linux-bridge", "ovs-interface", "ovs-bridge", "vlan",
               "ethernet"},
        src \in {None, Some("eth1"), Some("br0")},
        mac \in {None, Some("02:00:00:00:00:0a")},
        e \in Opt({Interface("eth1", "ethernet", "up", None, None),
                   WithMac(Interface("br0", "linux-bridge", "up", None, None),
                       Some("eth1"), None, None)})}

MacCurrents ==
    {push_all(EmptyInterfaces, a \o b \o c) :
        a \in Opt({WithMac(Interface("eth1", "ethernet", "up", None, Some(1500)),
                           None, mac, perm) :
                       mac \in {None, Some(""), Some("02:00:00:00:00:01")},
                       perm \in {None, Some(""), Some("02:00:00:00:00:02")}}),
        b \in Opt(Br0Found),
        c \in Opt({Interface("bond0", "bond", "up", None, Some(1500))})}

GenCases ==
    (TypedDesires \X TypedCurrents) \cup (StackedDesires \X StackedCurrents)
        \cup (DhcpDesires \X DhcpCurrents) \cup (MacDesires \X MacCurrents)

----------------------------------------------------------------------------
(* NetworkState::gen_state_for_apply: the interfaces, then the routes and the
   route rules folded into them, net_state.rs 260-425 and 488-529 *)

RouteEntry(table_id, next_hop_iface, destination) ==
    [table_id |-> table_id, next_hop_iface |-> next_hop_iface,
     destination |-> destination]

RouteRuleEntry(table_id, priority) == [table_id |-> table_id, priority |-> priority]

\* routes and rules are the `config` of the two sections: None, or Some(list).
NetworkState(interfaces, routes, rules) ==
    [interfaces |-> interfaces, routes |-> routes, rules |-> rules]

ConfigOf(config) == IF config # None THEN config[1] ELSE <<>>

\* The next hop interface of the first route of that table that has one.
_get_iface_name_for_route_table(self, table_id) ==
    LET routes == ConfigOf(self.routes)
        hits == {i \in 1..Len(routes) :
                    /\ routes[i].table_id = Some(table_id)
                    /\ routes[i].next_hop_iface # None}
    IN  IF hits = {} THEN None ELSE routes[MinOf(hits)].next_hop_iface

\* Faulty variant: current's routes are searched before the desired ones.
found_iface_name_current_first(self, current_state, table_id) ==
    IF _get_iface_name_for_route_table(current_state, table_id) # None
    THEN _get_iface_name_for_route_table(current_state, table_id)
    ELSE _get_iface_name_for_route_table(self, table_id)

\* self._get_iface_name_for_route_table(id).or_else(|| current._get...(id))
found_iface_name(self, current_state, table_id) ==
    IF _get_iface_name_for_route_table(self, table_id) # None
    THEN _get_iface_name_for_route_table(self, table_id)
    ELSE _get_iface_name_for_route_table(current_state, table_id)

get_iface_name_for_route_table(self, current_state, table_id) ==
    LET found == found_iface_name(self, current_state, table_id)
    IN  IF found # None THEN [result |-> Ok, iface_name |-> found[1]]
        ELSE [result |-> Err("InvalidArgument", "route table", table_id),
              iface_name |-> ""]

\* The desired routes that current does not have, by next hop interface.
gen_changed_ifaces_and_routes(self_routes, cur_routes) ==
    LET des == ConfigOf(self_routes)
        cur == ConfigOf(cur_routes)
        changed == {des[i] : i \in 1..Len(des)} \ {cur[i] : i \in 1..Len(cur)}
        names == {r.next_hop_iface[1] : r \in {c \in changed : c.next_hop_iface # None}}
    IN  [n \in names |-> {r \in changed : r.next_hop_iface = Some(n)}]

\* The desired rules that current does not have, by route table.
gen_rule_changed_table_ids(self_rules, cur_rules) ==
    LET des == ConfigOf(self_rules)
        cur == ConfigOf(cur_rules)
        changed == {des[i] : i \in 1..Len(des)} \ {cur[i] : i \in 1..Len(cur)}
    IN  [t \in {r.table_id : r \in changed} |-> {r \in changed : r.table_id = t}]

\* The IP configuration is taken from current when the interface has none.
copy_ip_config_if_none(iface, cur_iface) ==
    IF iface.ipv4 = None THEN [iface EXCEPT !.ipv4 = cur_iface.ipv4] ELSE iface

copy_from_current(iface, cur_iface) ==
    IF cur_iface # None THEN copy_ip_config_if_none(iface, cur_iface[1]) ELSE iface

\* include_route_changes, the changed interfaces being drained in the order
\* `ifaces`.  `sets` is [add, chg]: the two interface tables.
RECURSIVE include_route_changes(_, _, _, _)
include_route_changes(changed, sets, current_state, ifaces) ==
    IF ifaces = <<>> THEN sets
    ELSE LET iface_name == Head(ifaces)
             routes == changed[iface_name]
             cur_iface == get_iface(current_state.interfaces, iface_name, "unknown")
             next ==
                 IF iface_name \in DOMAIN sets.add.kernel_ifaces
                 THEN [sets EXCEPT !.add.kernel_ifaces[iface_name] =
                          copy_from_current([@ EXCEPT !.routes = Some(routes)], cur_iface)]
                 ELSE IF iface_name \in DOMAIN sets.chg.kernel_ifaces
                 THEN [sets EXCEPT !.chg.kernel_ifaces[iface_name] =
                          copy_from_current([@ EXCEPT !.routes = Some(routes)], cur_iface)]
                 ELSE IF cur_iface # None
                 THEN [sets EXCEPT !.chg =
                          push(@, [copy_ip_config_if_none(
                                       clone_name_type_only(cur_iface[1]), cur_iface[1])
                                   EXCEPT !.routes = Some(routes)])]
                 ELSE sets
         IN  include_route_changes(changed, next, current_state, Tail(ifaces))

\* ex_rules.extend(rules); sort_unstable(); dedup(), or rules = Some(rules)
with_rules(iface, rules) ==
    [iface EXCEPT !.rules = IF @ # None THEN Some(@[1] \cup rules) ELSE Some(rules)]

\* include_rule_changes, the changed tables being drained in the order
\* `table_ids`; the first error ends it.
RECURSIVE include_rule_changes(_, _, _, _, _)
include_rule_changes(self, changed_rules, sets, current_state, table_ids) ==
    IF table_ids = <<>> THEN [result |-> Ok, sets |-> sets]
    ELSE LET table_id == Head(table_ids)
             rules == changed_rules[table_id]
             owner == get_iface_name_for_route_table(self, current_state, table_id)
             iface_name == owner.iface_name
             cur_iface == get_iface(current_state.interfaces, iface_name, "unknown")
         IN  IF owner.result # Ok THEN [result |-> owner.result, sets |-> sets]
             ELSE IF iface_name \in DOMAIN sets.add.kernel_ifaces
             THEN include_rule_changes(self, changed_rules,
                      [sets EXCEPT !.add.kernel_ifaces[iface_name] =
                          copy_from_current(with_rules(@, rules), cur_iface)],
                      current_state, Tail(table_ids))
             ELSE IF iface_name \in DOMAIN sets.chg.kernel_ifaces
             THEN include_rule_changes(self, changed_rules,
                      [sets EXCEPT !.chg.kernel_ifaces[iface_name] =
                          copy_from_current(with_rules(@, rules), cur_iface)],
                      current_state, Tail(table_ids))
             ELSE IF cur_iface # None
             THEN include_rule_changes(self, changed_rules,
                      [sets EXCEPT !.chg =
                          push(@, [copy_ip_config_if_none(
                                       clone_name_type_only(cur_iface[1]), cur_iface[1])
                                   EXCEPT !.rules = Some(rules)])],
                      current_state, Tail(table_ids))
             ELSE [result |-> Err("InvalidArgument", iface_name, table_id),
                   sets |-> sets]

NoNetDiff(r) ==
    [result |-> r, add |-> EmptyInterfaces, chg |-> EmptyInterfaces,
     del |-> EmptyInterfaces]

\* NetworkState::gen_state_for_apply.  The states of the model have no DNS
\* section, and their routes and rules pass validate().
\* Lines 272-299: the routes and the rules folded into the interfaces that
\* Interfaces::gen_state_for_apply gave.
include_changes(self, current_state, ifaces, route_ifaces, table_ids) ==
    IF ~ifaces.ok THEN NoNetDiff(ifaces.err)
    ELSE LET routed == include_route_changes(
                           gen_changed_ifaces_and_routes(self.routes, current_state.routes),
                           [add |-> ifaces.add, chg |-> ifaces.chg], current_state,
                           route_ifaces)
             ruled == include_rule_changes(self,
                          gen_rule_changed_table_ids(self.rules, current_state.rules),
                          routed, current_state, table_ids)
         IN  IF ruled.result # Ok THEN NoNetDiff(ruled.result)
             ELSE [result |-> Ok, add |-> ruled.sets.add, chg |-> ruled.sets.chg,
                   del |-> ifaces.del]

net_state_gen_state_for_apply(self, current_state, keys, values, route_ifaces, table_ids) ==
    CHOOSE out \in
        {include_changes(self, current_state, ifaces, route_ifaces, table_ids) :
            ifaces \in {gen_state_for_apply(self.interfaces, current_state.interfaces,
                            keys, values)}} : TRUE

net_gen_state_for_apply ==
    /\ net_out.result = Pending
    /\ \E keys \in InsertOrders(copy_mac_from_asked(net_desire.interfaces)),
          values \in HashMapValues(net_current.interfaces.kernel_ifaces),
          route_ifaces \in HashMapValues(
              gen_changed_ifaces_and_routes(net_desire.routes, net_current.routes)),
          table_ids \in HashMapValues(
              gen_rule_changed_table_ids(net_desire.rules, net_current.rules)) :
          net_out' = net_state_gen_state_for_apply(net_desire, net_current, keys, values,
                         route_ifaces, table_ids)
    /\ UNCHANGED <<net_desire, net_current, applyVars, prioVars, nmVars, diffVars, ioVars>>

\* eth1 or eth2 desired or not, over a host that has eth1, both or neither;
\* routes of the tables 100 and 200 through either, in the desire and in
\* current, one of them with no next hop interface and one with no table;
\* rules of the tables 100 and 200.
NetIfacesDesired ==
    {push_all(EmptyInterfaces, a) :
        a \in Opt({Interface(n, "ethernet", "up", None, None) : n \in {"eth1", "eth2"}})}

NetIfacesFound ==
    {push_all(EmptyInterfaces, a) :
        a \in {<<>>,
               <<Interface("eth1", "ethernet", "up", None, Some(1500))>>,
               <<Interface("eth1", "ethernet", "up", None, Some(1500)),
                 Interface("eth2", "ethernet", "up", None, Some(1500))>>}}

NetRoutesDesired ==
    {None, Some(<<>>),
     Some(<<RouteEntry(Some(200), Some("eth1"), "198.51.100.0/24")>>),
     Some(<<RouteEntry(Some(200), None, "198.51.100.0/24"),
            RouteEntry(Some(200), Some("eth2"), "203.0.113.0/24")>>),
     Some(<<RouteEntry(Some(200), Some("eth2"), "203.0.113.0/24"),
            RouteEntry(Some(200), Some("eth1"), "198.51.100.0/24")>>),
     Some(<<RouteEntry(None, Some("eth1"), "198.51.100.0/24"),
            RouteEntry(Some(100), Some("eth2"), "203.0.113.0/24")>>)}

NetRoutesFound ==
    {None,
     Some(<<RouteEntry(Some(200), Some("eth2"), "203.0.113.0/24")>>),
     Some(<<RouteEntry(Some(200), Some("eth1"), "198.51.100.0/24")>>),
     Some(<<RouteEntry(Some(100), Some("eth1"), "198.51.100.0/24"),
            RouteEntry(Some(200), Some("eth2"), "203.0.113.0/24")>>)}

NetRulesDesired ==
    {None,
     Some(<<RouteRuleEntry(200, 1000)>>),
     Some(<<RouteRuleEntry(100, 1000)>>),
     Some(<<RouteRuleEntry(100, 1000), RouteRuleEntry(200, 1000)>>),
     Some(<<RouteRuleEntry(200, 1000), RouteRuleEntry(200, 2000)>>)}

NetRulesFound == {None, Some(<<RouteRuleEntry(200, 1000)>>)}

NetIdle ==
    /\ net_desire = NetworkState(EmptyInterfaces, None, None)
    /\ net_current = NetworkState(EmptyInterfaces, None, None)
    /\ net_out = NoNetDiff(Pending)

----------------------------------------------------------------------------
(* ovsdb_apply_global_conf: ovsdb/global_conf.rs and ovs.rs                *)
(*                                                                         *)
(* A HashMap<String, V> is the set of its <<key, value>> pairs.  The row   *)
(* of the Open_vSwitch table is a record of its two map columns, and the   *)
(* server applies the operations of a transaction in order, all or none.   *)

GLOBAL_CONFIG_TABLE == "Open_vSwitch"
OVS_DB_NAME == "Open_vSwitch"
OVN_BRIDGE_MAPPINGS_KEY == "ovn-bridge-mappings"

Keys(map) == {kv[1] : kv \in map}

OvsDbGlobalConfig(external_ids, other_config) ==
    [external_ids |-> external_ids, other_config |-> other_config]

\* MergedNetworkState, as far as this function reads it: the desired
\* ovs-db section, merged_state.ovsdb.is_changed(),
\* merged_state.ovn.is_changed() and
\* merged_state.ovn.to_ovsdb_external_id_value().
MergedOvsState(desired, ovsdb_is_changed, ovn_is_changed, ovn_map_value) ==
    [desired |-> desired, ovsdb_is_changed |-> ovsdb_is_changed,
     ovn_is_changed |-> ovn_is_changed, ovn_map_value |-> ovn_map_value]

is_purge(self) ==
    IF self.external_ids = None /\ self.other_config = None THEN TRUE
    ELSE IF self.external_ids # None /\ self.other_config # None
         THEN self.external_ids[1] = {} /\ self.other_config[1] = {}
         ELSE FALSE

OvsDbUpdate(column) ==
    [op |-> "update", table |-> GLOBAL_CONFIG_TABLE, column |-> column, row |-> {}]

OvsDbMutation(column, mutator, value) ==
    [column |-> column, mutator |-> mutator, value |-> value]

OvsDbMutate(mutations) ==
    [op |-> "mutate", table |-> GLOBAL_CONFIG_TABLE, mutations |-> mutations]

OvsDbMethodTransact(operations) ==
    [db_name |-> OVS_DB_NAME, operations |-> operations]

\* The purge that writes nothing.
append_purge_action_skipped(operations, column) == operations

append_purge_action(operations, column) == Append(operations, OvsDbUpdate(column))

\* The insert placed ahead of the delete.
append_mutations_insert_first(mutations, column, data) ==
    LET delete_keys == Keys(data)
        insert_values == {<<kv[1], kv[2][1]>> : kv \in {d \in data : d[2] # None}}
        inserted == IF insert_values # {}
                    THEN Append(mutations, OvsDbMutation(column, "insert", insert_values))
                    ELSE mutations
    IN  IF delete_keys # {}
        THEN Append(inserted, OvsDbMutation(column, "delete", delete_keys))
        ELSE inserted

append_mutations(mutations, column, data) ==
    LET delete_keys == Keys(data)
        insert_values == {<<kv[1], kv[2][1]>> : kv \in {d \in data : d[2] # None}}
        deleted == IF delete_keys # {}
                   THEN Append(mutations, OvsDbMutation(column, "delete", delete_keys))
                   ELSE mutations
    IN  IF insert_values # {}
        THEN Append(deleted, OvsDbMutation(column, "insert", insert_values))
        ELSE deleted

\* Lines 154-193: the operations of the desired ovs-db section, and
\* is_external_ids_purged.
desired_ovsdb_operations(desired) ==
    IF desired = None
    THEN [operations |-> <<>>, is_external_ids_purged |-> FALSE]
    ELSE LET desired_ovsdb == desired[1]
             external_ids == desired_ovsdb.external_ids
             other_config == desired_ovsdb.other_config
         IN  IF is_purge(desired_ovsdb)
             THEN [operations |->
                       append_purge_action(
                           append_purge_action(<<>>, "external_ids"), "other_config"),
                   is_external_ids_purged |-> TRUE]
             ELSE LET purge_ids == external_ids # None /\ external_ids[1] = {}
                      ops1 == IF purge_ids
                              THEN append_purge_action(<<>>, "external_ids")
                              ELSE <<>>
                      muts1 == IF external_ids # None /\ external_ids[1] # {}
                               THEN append_mutations(<<>>, "external_ids", external_ids[1])
                               ELSE <<>>
                      ops2 == IF other_config # None /\ other_config[1] = {}
                              THEN append_purge_action(ops1, "other_config")
                              ELSE ops1
                      muts2 == IF other_config # None /\ other_config[1] # {}
                               THEN append_mutations(muts1, "other_config", other_config[1])
                               ELSE muts1
                  IN  [operations |-> IF muts2 # <<>>
                                      THEN Append(ops2, OvsDbMutate(muts2))
                                      ELSE ops2,
                       is_external_ids_purged |-> purge_ids]

\* The OVN mapping written only when the OVN section changed.
ovn_is_written_when_changed(merged_state, is_external_ids_purged) ==
    merged_state.ovn_is_changed

\* Lines 199-200.
ovn_is_written(merged_state, is_external_ids_purged) ==
    \/ merged_state.ovn_is_changed
    \/ (is_external_ids_purged /\ merged_state.ovn_map_value # None)

\* Lines 202-224.
ovn_operation(ovn_map_value) ==
    LET ovn_external_ids == {<<OVN_BRIDGE_MAPPINGS_KEY, ovn_map_value>>}
        mutations == <<OvsDbMutation("external_ids", "delete", {OVN_BRIDGE_MAPPINGS_KEY})>>
    IN  OvsDbMutate(append_mutations(mutations, "external_ids", ovn_external_ids))

\* Lines 151-225: the operations of the transaction.
global_conf_operations(merged_state) ==
    LET d == desired_ovsdb_operations(merged_state.desired)
    IN  IF ovn_is_written(merged_state, d.is_external_ids_purged)
        THEN Append(d.operations, ovn_operation(merged_state.ovn_map_value))
        ELSE d.operations

\* The server's side of a mutation (RFC 7047, 5.1): delete removes the
\* named keys, insert adds the pairs whose key the map does not hold.
apply_mutation(map, mutation) ==
    IF mutation.mutator = "delete"
    THEN {kv \in map : kv[1] \notin mutation.value}
    ELSE map \cup {kv \in mutation.value : kv[1] \notin Keys(map)}

RECURSIVE apply_mutations(_, _)
apply_mutations(row, mutations) ==
    IF mutations = <<>> THEN row
    ELSE LET m == Head(mutations)
         IN  apply_mutations(
                 [row EXCEPT ![m.column] = apply_mutation(row[m.column], m)],
                 Tail(mutations))

RECURSIVE apply_operations(_, _)
apply_operations(row, operations) ==
    IF operations = <<>> THEN row
    ELSE LET o == Head(operations)
         IN  apply_operations(
                 IF o.op = "update"
                 THEN [row EXCEPT ![o.column] = o.row]
                 ELSE apply_mutations(row, o.mutations),
                 Tail(operations))

\* ovsdb_apply_global_conf(merged_state).  The connection and the
\* transaction each succeed or fail.
ovsdb_apply_global_conf ==
    /\ ovs_result = Pending
    /\ IF ~ovs_merged.ovsdb_is_changed /\ ~ovs_merged.ovn_is_changed
       THEN /\ ovs_result' = Ok
            /\ UNCHANGED <<ovs_row, ovs_requests>>
       ELSE \E connected \in BOOLEAN, transacted \in BOOLEAN :
            LET operations == global_conf_operations(ovs_merged)
            IN  IF ~connected
                THEN /\ ovs_result' = Err("Bug", "OvsDbConnection::new", 0)
                     /\ UNCHANGED <<ovs_row, ovs_requests>>
                ELSE IF operations = <<>>
                THEN /\ ovs_result' = Ok
                     /\ UNCHANGED <<ovs_row, ovs_requests>>
                ELSE /\ ovs_requests' = Append(ovs_requests, OvsDbMethodTransact(operations))
                     /\ ovs_row' = IF transacted
                                   THEN apply_operations(ovs_row, operations)
                                   ELSE ovs_row
                     /\ ovs_result' = IF transacted THEN Ok
                                      ELSE Err("PluginFailure", "transact", 0)
    /\ UNCHANGED <<ovs_merged, rpc_socket, rpc_transaction_id, rpc_out, document, parsed,
                   vec_table, vec_out,
                   applyVars, prioVars, nmVars, diffVars, netVars>>

\* The maps a document can ask for in a column, and the columns found.
OvsDesiredMaps ==
    {None, Some({}), Some({<<"k1", Some("new")>>}), Some({<<"k1", None>>}),
     Some({<<"k1", Some("new")>>, <<"k2", None>>})}

OvsDesired ==
    {None} \cup {Some(OvsDbGlobalConfig(e, o)) : e \in OvsDesiredMaps, o \in OvsDesiredMaps}

OvsFoundExternalIds ==
    {{}, {<<"k1", "old">>, <<"k2", "old">>, <<"k3", "kept">>},
     {<<"k3", "kept">>, <<OVN_BRIDGE_MAPPINGS_KEY, "net0:br0">>}}

OvsFoundOtherConfig == {{}, {<<"k1", "old">>, <<"k2", "old">>, <<"k3", "kept">>}}

OvnMapValues == {None, Some("net1:br1")}

OvsIdle ==
    /\ ovs_merged = MergedOvsState(None, FALSE, FALSE, None)
    /\ ovs_row = OvsDbGlobalConfig({}, {})
    /\ ovs_requests = <<>>
    /\ ovs_result = Pending

----------------------------------------------------------------------------
(* OvsDbJsonRpc::recv: ovsdb/json_rpc.rs                                   *)
(*                                                                         *)
(* The socket holds the reads it will deliver (their sizes), what goes     *)
(* wrong on it, and the reply the server wrote.                            *)

BUFFER_SIZE == 4096
MaxRpcId == 2

OvsDbRpcError(error, details) == [error |-> error, details |-> details]

OvsDbRpcReply(r, error, id) == [result |-> r, error |-> error, id |-> id]

RpcSocket(reads, fault, reply) == [reads |-> reads, fault |-> fault, reply |-> reply]

RpcOut(r, value) == [result |-> r, value |-> value]

\* Lines 62-73: the bytes taken, up to and with the first read shorter than
\* the buffer.
RECURSIVE read_response(_)
read_response(reads) ==
    IF reads = <<>> THEN 0
    ELSE IF Head(reads) < BUFFER_SIZE THEN Head(reads)
    ELSE Head(reads) + read_response(Tail(reads))

RECURSIVE SumOf(_)
SumOf(reads) == IF reads = <<>> THEN 0 ELSE Head(reads) + SumOf(Tail(reads))

\* The reply accepted whatever its id.
check_reply_any_id(reply, transaction_id) ==
    IF reply.error # None
    THEN RpcOut(Err("PluginFailure", "rpc error", reply.id), None)
    ELSE RpcOut(Ok, Some(reply.result))

\* Lines 78-96.
check_reply(reply, transaction_id) ==
    IF reply.id # transaction_id
    THEN RpcOut(Err("PluginFailure", "id mismatch", reply.id), None)
    ELSE IF reply.error # None
    THEN RpcOut(Err("PluginFailure", "rpc error", reply.id), None)
    ELSE RpcOut(Ok, Some(reply.result))

\* recv(transaction_id).  A response cut by a short read is not a JSON
\* document.
recv(socket, transaction_id) ==
    IF socket.fault = "io"
    THEN RpcOut(Err("PluginFailure", "socket", 0), None)
    ELSE IF socket.fault = "utf8"
    THEN RpcOut(Err("PluginFailure", "utf8", 0), None)
    ELSE IF socket.fault = "json" \/ read_response(socket.reads) < SumOf(socket.reads)
    THEN RpcOut(Err("PluginFailure", "json", 0), None)
    ELSE check_reply(socket.reply, transaction_id)

rpc_recv ==
    /\ rpc_out.result = Pending
    /\ rpc_out' = recv(rpc_socket, rpc_transaction_id)
    /\ UNCHANGED <<rpc_socket, rpc_transaction_id, ovs_merged, ovs_row, ovs_requests,
                   ovs_result, document, parsed, vec_table, vec_out, applyVars, prioVars, nmVars, diffVars, netVars>>

RpcReads == {<<100>>, <<BUFFER_SIZE, 100>>, <<BUFFER_SIZE, 0>>, <<100, 100>>}

RpcFaults == {"none", "io", "utf8", "json"}

RpcReplies ==
    {OvsDbRpcReply(r, error, id) :
        r \in {"null", "rows"},
        error \in {None, Some(OvsDbRpcError("unknown database", None)),
                   Some(OvsDbRpcError("syntax error", Some("bad row")))},
        id \in 0..MaxRpcId}

RpcIdle ==
    /\ rpc_socket = RpcSocket(<<>>, "none", OvsDbRpcReply("null", None, 0))
    /\ rpc_transaction_id = 0
    /\ rpc_out = RpcOut(Pending, None)

----------------------------------------------------------------------------
(* Deserialize for NetworkState, NetworkState::new_from_json: net_state.rs *)
(*                                                                         *)
(* A document is what serde_json::Value holds of it: whether it parsed,    *)
(* whether it is a mapping, its top-level keys, and the keys whose section *)
(* its own deserializer refuses.                                           *)

Document(kind, keys, invalid) == [kind |-> kind, keys |-> keys, invalid |-> invalid]

\* The keys the deserializer looks up, in its order, and the prop_list name
\* of each.
SECTION_KEYS == <<"interfaces", "dns-resolver", "routes", "route-rules">>

PropName(key) ==
    CASE key = "interfaces" -> "interfaces"
      [] key = "dns-resolver" -> "dns"
      [] key = "routes" -> "routes"
      [] key = "route-rules" -> "rules"

\* v.get(key): Some only on a mapping that holds the key.
value_get(doc, key) == doc.kind = "mapping" /\ key \in doc.keys

Parsed(r, prop_list) == [result |-> r, prop_list |-> prop_list]

RECURSIVE deserialize_sections(_, _, _)
deserialize_sections(doc, keys, prop_list) ==
    IF keys = <<>> THEN Parsed(Ok, prop_list)
    ELSE IF ~value_get(doc, Head(keys))
    THEN deserialize_sections(doc, Tail(keys), prop_list)
    ELSE IF Head(keys) \in doc.invalid
    THEN Parsed(Err("serde", Head(keys), 0), <<>>)
    ELSE deserialize_sections(doc, Tail(keys), Append(prop_list, PropName(Head(keys))))

\* <NetworkState as Deserialize>::deserialize
deserialize(doc) ==
    IF doc.kind = "malformed"
    THEN Parsed(Err("serde", "document", 0), <<>>)
    ELSE deserialize_sections(doc, SECTION_KEYS, <<>>)

new_from_json(doc) ==
    LET s == deserialize(doc)
    IN  IF s.result.ok THEN s
        ELSE Parsed(Err("InvalidArgument", "Invalid json string", 0), <<>>)

doc_new_from_json ==
    /\ parsed.result = Pending
    /\ parsed' = new_from_json(document)
    /\ UNCHANGED <<document, vec_table, vec_out, ovs_merged, ovs_row, ovs_requests, ovs_result,
                   rpc_socket, rpc_transaction_id, rpc_out,
                   applyVars, prioVars, nmVars, diffVars, netVars>>

TopLevelKeys ==
    {"interfaces", "dns-resolver", "routes", "route-rules", "ovs-db", "foo"}

Documents ==
    {Document(kind, keys, invalid) :
        kind \in {"mapping", "sequence", "malformed"},
        keys \in SUBSET TopLevelKeys,
        invalid \in {{}, {"interfaces"}, {"routes"}}}

DocIdle ==
    /\ document = Document("mapping", {}, {})
    /\ parsed = Parsed(Pending, <<>>)

----------------------------------------------------------------------------
(* Interfaces::to_vec, step by step: ifaces/inter_ifaces.rs                *)
(*                                                                         *)
(* HashMap::values() walks a map in the order of its hash seed, which is   *)
(* drawn anew for every map, and sort_unstable_by_key may leave elements   *)
(* of equal key in any order: both are choices here.                       *)

MaxToVecCalls == 2

\* Lines 74-80: the values of the kernel map, then those of the user map.
to_vec_pushed(ifaces, kernel_keys, user_keys) ==
    [i \in 1..Len(kernel_keys) |-> ifaces.kernel_ifaces[kernel_keys[i]]]
        \o [i \in 1..Len(user_keys) |-> ifaces.user_ifaces[user_keys[i]]]

\* Line 81: every arrangement that is sorted by name.
sort_unstable_by_name(vec) ==
    {s \in InsertOrders({vec[i] : i \in DOMAIN vec}) :
        \A i, j \in DOMAIN s : i < j => NameRank(s[i].name) <= NameRank(s[j].name)}

\* Line 84: sorted by up_priority, equal priorities left in their order.
RECURSIVE sort_by_up_priority(_, _)
sort_by_up_priority(vec, priorities) ==
    IF priorities = {} THEN <<>>
    ELSE LET p == MinOf(priorities)
         IN  SelectSeq(vec, LAMBDA iface : iface.up_priority = p)
                 \o sort_by_up_priority(vec, priorities \ {p})

\* What to_vec can return for a table.
to_vec_outcomes(ifaces) ==
    UNION {{sort_by_up_priority(s, {s[i].up_priority : i \in DOMAIN s}) :
               s \in sort_unstable_by_name(to_vec_pushed(ifaces, kernel_keys, user_keys))} :
           kernel_keys \in InsertOrders(DOMAIN ifaces.kernel_ifaces),
           user_keys \in InsertOrders(DOMAIN ifaces.user_ifaces)}

vec_to_vec ==
    /\ Len(vec_out) < MaxToVecCalls
    /\ \E vec \in to_vec_outcomes(vec_table) : vec_out' = Append(vec_out, vec)
    /\ UNCHANGED <<vec_table, document, parsed, ovs_merged, ovs_row, ovs_requests,
                   ovs_result, rpc_socket, rpc_transaction_id, rpc_out,
                   applyVars, prioVars, nmVars, diffVars, netVars>>

\* The interfaces a table is made of: two kernel ones, and three that share
\* the name br0, one in the kernel map and two in the user-space map.
VecIfaces ==
    <<Interface("eth1", "ethernet", "up", None, None),
      Interface("bond0", "bond", "up", None, None),
      Interface("br0", "linux-bridge", "up", None, None),
      Interface("br0", "ovs-bridge", "up", None, None),
      Interface("br0", "unknown", "up", None, None)>>

\* choice[i] is -1 when interface i is left out, else what its up_priority
\* is above UP_PRIORITY_START.
RECURSIVE VecTable(_, _)
VecTable(choice, i) ==
    IF i = 0 THEN EmptyInterfaces
    ELSE IF choice[i] < 0 THEN VecTable(choice, i - 1)
    ELSE push(VecTable(choice, i - 1),
              [VecIfaces[i] EXCEPT !.up_priority = UP_PRIORITY_START + choice[i]])

VecTables == {VecTable(choice, Len(VecIfaces)) : choice \in [DOMAIN VecIfaces -> -1..1]}

VecIdle ==
    /\ vec_table = EmptyInterfaces
    /\ vec_out = <<>>

IoIdle == OvsIdle /\ RpcIdle /\ DocIdle /\ VecIdle

----------------------------------------------------------------------------
(* Specifications *)

Cfgs == [kernel_only : BOOLEAN, no_verify : BOOLEAN, kernel_ifaces : DesiredKernelIfaces]

IdleCfg == [kernel_only |-> FALSE, no_verify |-> FALSE, kernel_ifaces |-> <<>>]

\* What every run starts from, but for who runs, what is applied and what
\* the daemon holds.
InitCommon ==
    /\ checkpoint = [p \in Procs |-> NoCheckpoint]
    /\ calls = [p \in Procs |-> <<>>]
    /\ cur_count = [p \in Procs |-> 0]
    /\ attempts = [p \in Procs |-> 0]
    /\ last_outcome = [p \in Procs |-> ""]
    /\ sleeps = [p \in Procs |-> 0]
    /\ func_result = [p \in Procs |-> Pending]
    /\ result = [p \in Procs |-> Pending]
    /\ next_token = 2
    /\ dropped = {}

\* No call of set_up_priority is under way.
PrioIdle ==
    /\ prio_ifaces = <<>>
    /\ insert_order = <<>>
    /\ passes = <<>>
    /\ prio_result = Ok

\* No call of apply_single_state is under way.
NmIdle ==
    /\ nm_pc = "done"
    /\ net_state = <<>>
    /\ nm_profiles = <<>>
    /\ nm_active = {}
    /\ nm_local = NoLocals
    /\ nm_calls = <<>>
    /\ nm_result = Ok

\* No diff is under way.
DiffIdle ==
    /\ diff_pc = "idle"
    /\ desire = EmptyInterfaces
    /\ current = EmptyInterfaces
    /\ diff_out = NoDiff
    /\ resolved = NotResolved
    /\ verified = Pending

\* No apply is under way.
ApplyIdle ==
    /\ InitCommon
    /\ pc = [p \in Procs |-> "done"]
    /\ cfg = [p \in Procs |-> IdleCfg]
    /\ count = [p \in Procs |-> 0]
    /\ nm_checkpoint = NoCheckpoint

\* One caller applies any desired state; the daemon may still hold the
\* checkpoint of another program.
InitApply ==
    /\ InitCommon
    /\ PrioIdle
    /\ NmIdle
    /\ DiffIdle
    /\ NetIdle
    /\ IoIdle
    /\ pc = [p \in Procs |-> IF p = 1 THEN "retrieve" ELSE "done"]
    /\ cfg \in [Procs -> Cfgs]
    /\ cfg[2] = IdleCfg
    /\ count = [p \in Procs |-> 0]
    /\ nm_checkpoint \in {NoCheckpoint, ForeignCheckpoint}

ApplyStep(p) ==
    \/ apply_retrieve(p)
    \/ apply_resolve_unknown_ifaces(p)
    \/ apply_gen_state_for_apply(p)
    \/ apply_checkpoint_create(p)
    \/ apply_checkpoint_create_retry(p)
    \/ apply_nm_api_new(p)
    \/ apply_nm_apply(p)
    \/ apply_checkpoint_timeout_extend(p)
    \/ with_retry_attempt(p)
    \/ with_retry_sleep(p)
    \/ with_nm_checkpoint_destroy(p)
    \/ with_nm_checkpoint_rollback(p)
    \/ apply_nispor_apply(p)
    \/ apply_kernel_return(p)

\* with_retry_loop_end is left out: apply() calls with_retry with a count of 5
\* or 60 and leaves the loop by one of its returns.
NextApply ==
    /\ \/ \E p \in Procs : ApplyStep(p)
       \/ nm_checkpoint_timeout
    /\ UNCHANGED <<prioVars, nmVars, diffVars, netVars, ioVars>>

Spec == InitApply /\ [][NextApply]_vars

\* Two callers apply at the same time (desired states without SR-IOV).
InitConcurrent ==
    /\ InitCommon
    /\ PrioIdle
    /\ NmIdle
    /\ DiffIdle
    /\ NetIdle
    /\ IoIdle
    /\ pc = [p \in Procs |-> "retrieve"]
    /\ cfg \in [Procs -> {c \in Cfgs : c.kernel_ifaces = <<>>}]
    /\ count = [p \in Procs |-> 0]
    /\ nm_checkpoint = NoCheckpoint

SpecConcurrent == InitConcurrent /\ [][NextApply]_vars

\* with_retry on its own, for every count up to MaxRetryCount.
InitRetry ==
    /\ InitCommon
    /\ PrioIdle
    /\ NmIdle
    /\ DiffIdle
    /\ NetIdle
    /\ IoIdle
    /\ pc = [p \in Procs |-> IF p = 1 THEN "with_retry" ELSE "done"]
    /\ cfg = [p \in Procs |-> IdleCfg]
    /\ count \in [Procs -> 0..MaxRetryCount]
    /\ count[2] = 0
    /\ nm_checkpoint = NoCheckpoint

NextRetry ==
    /\ \E p \in Procs :
        \/ with_retry_attempt(p)
        \/ with_retry_sleep(p)
        \/ with_retry_loop_end(p)
    /\ UNCHANGED <<prioVars, nmVars, diffVars, netVars, ioVars>>

SpecRetry == InitRetry /\ [][NextRetry]_vars

\* set_up_priority on its own: any small table and any chain of controllers,
\* pushed in any order.
InitPrio ==
    /\ ApplyIdle
    /\ NmIdle
    /\ DiffIdle
    /\ NetIdle
    /\ IoIdle
    /\ prio_ifaces \in TreeTables \cup ChainTables
    /\ insert_order \in InsertOrders(DOMAIN prio_ifaces)
    /\ passes = <<>>
    /\ prio_result = Pending

NextPrio ==
    \/ set_up_priority_pass
    \/ set_up_priority_fail

SpecPrio == InitPrio /\ [][NextPrio]_vars

\* One call of apply_single_state: eth1 is desired in any state, eth2 may be
\* desired up or down; either may have a profile, active or not.
Eth1Desired ==
    {Iface("eth1", "ethernet", "up", v4, v6) : v4 \in Ipv4Settings, v6 \in Ipv6Settings}
    \cup {Iface("eth1", t, st, None, None) :
              t \in {"ethernet", "unknown"}, st \in {"up", "down", "absent"}}

Eth2Desired ==
    {Iface("eth2", "ethernet", st, None, None) : st \in {"up", "down"}}

Eth1Profiles ==
    {NmConnection(Some("uuid1"), "eth1", "ethernet", v4, v6) :
         v4 \in Ipv4Settings, v6 \in Ipv6Settings}

Eth2Profiles ==
    {NmConnection(u, "eth2", "ethernet", None, None) : u \in {None, Some("uuid2")}}

InitNm ==
    /\ ApplyIdle
    /\ PrioIdle
    /\ DiffIdle
    /\ NetIdle
    /\ IoIdle
    /\ nm_pc = "prepare"
    /\ \E e1 \in Eth1Desired, e2 \in {<<>>} \cup {<<i>> : i \in Eth2Desired} :
           net_state = <<e1>> \o e2
    /\ \E p1 \in {<<>>} \cup {<<c>> : c \in Eth1Profiles},
          p2 \in {<<>>} \cup {<<c>> : c \in Eth2Profiles} :
           nm_profiles = p1 \o p2
    /\ nm_active \in SUBSET Uuids(nm_profiles)
    /\ nm_local = NoLocals
    /\ nm_calls = <<>>
    /\ nm_result = Pending

NextNm ==
    \/ apply_single_state_prepare
    \/ apply_single_state_deactivate_first
    \/ apply_single_state_save
    \/ apply_single_state_delete_exist
    \/ apply_single_state_activate
    \/ apply_single_state_deactivate_down

SpecNm == InitNm /\ [][NextNm]_vars

\* Any desire against any current state of the host.
InitDiff ==
    /\ ApplyIdle
    /\ PrioIdle
    /\ NmIdle
    /\ diff_pc = "diff"
    /\ desire \in DesiredTables
    /\ current \in CurrentTables
    /\ diff_out = NoDiff
    /\ resolved = NotResolved
    /\ verified = Pending
    /\ NetIdle
    /\ IoIdle

NextDiff ==
    \/ diff_gen_state_for_apply
    \/ diff_apply_retrieve
    \/ diff_verify

SpecDiff == InitDiff /\ [][NextDiff]_vars

\* One call of gen_state_for_apply, on any of the cases above.
InitGen ==
    /\ ApplyIdle
    /\ PrioIdle
    /\ NmIdle
    /\ diff_pc = "diff"
    /\ \E c \in GenCases : desire = c[1] /\ current = c[2]
    /\ diff_out = NoDiff
    /\ resolved = NotResolved
    /\ verified = Pending
    /\ NetIdle
    /\ IoIdle

NextGen == diff_gen_state_for_apply /\ diff_pc = "diff"

SpecGen == InitGen /\ [][NextGen]_vars

\* One call of resolve_unknown_ifaces, on any desire against any current.
InitResolve ==
    /\ ApplyIdle
    /\ PrioIdle
    /\ NmIdle
    /\ diff_pc = "resolve"
    /\ desire \in UnknownDesires
    /\ current \in CurrentTables
    /\ diff_out = NoDiff
    /\ resolved = NotResolved
    /\ verified = Pending
    /\ NetIdle
    /\ IoIdle

NextResolve == diff_resolve_unknown_ifaces

SpecResolve == InitResolve /\ [][NextResolve]_vars

\* One call of NetworkState::gen_state_for_apply.
InitNet ==
    /\ ApplyIdle
    /\ PrioIdle
    /\ NmIdle
    /\ DiffIdle
    /\ net_desire \in {NetworkState(i, r, u) :
           i \in NetIfacesDesired, r \in NetRoutesDesired, u \in NetRulesDesired}
    /\ net_current \in {NetworkState(i, r, u) :
           i \in NetIfacesFound, r \in NetRoutesFound, u \in NetRulesFound}
    /\ net_out = NoNetDiff(Pending)
    /\ IoIdle

NextNet == net_gen_state_for_apply

SpecNet == InitNet /\ [][NextNet]_vars

\* One call of ovsdb_apply_global_conf.
InitOvs ==
    /\ ApplyIdle
    /\ PrioIdle
    /\ NmIdle
    /\ DiffIdle
    /\ NetIdle
    /\ ovs_merged \in {MergedOvsState(d, c, n, v) :
           d \in OvsDesired, c \in BOOLEAN, n \in BOOLEAN, v \in OvnMapValues}
    /\ ovs_row \in {OvsDbGlobalConfig(e, o) :
           e \in OvsFoundExternalIds, o \in OvsFoundOtherConfig}
    /\ ovs_requests = <<>>
    /\ ovs_result = Pending
    /\ RpcIdle
    /\ DocIdle
    /\ VecIdle

NextOvs == ovsdb_apply_global_conf

SpecOvs == InitOvs /\ [][NextOvs]_vars

\* One call of OvsDbJsonRpc::recv.
InitRpc ==
    /\ ApplyIdle
    /\ PrioIdle
    /\ NmIdle
    /\ DiffIdle
    /\ NetIdle
    /\ OvsIdle
    /\ rpc_socket \in {RpcSocket(reads, fault, reply) :
           reads \in RpcReads, fault \in RpcFaults, reply \in RpcReplies}
    /\ rpc_transaction_id \in 0..MaxRpcId
    /\ rpc_out = RpcOut(Pending, None)
    /\ DocIdle
    /\ VecIdle

NextRpc == rpc_recv

SpecRpc == InitRpc /\ [][NextRpc]_vars

\* One call of NetworkState::new_from_json.
InitDoc ==
    /\ ApplyIdle
    /\ PrioIdle
    /\ NmIdle
    /\ DiffIdle
    /\ NetIdle
    /\ OvsIdle
    /\ RpcIdle
    /\ document \in {d \in Documents :
           /\ d.invalid \subseteq d.keys
           /\ d.kind # "mapping" => d.keys = {}}
    /\ parsed = Parsed(Pending, <<>>)
    /\ VecIdle

NextDoc == doc_new_from_json

SpecDoc == InitDoc /\ [][NextDoc]_vars

\* Calls of to_vec on one table.
InitVec ==
    /\ ApplyIdle
    /\ PrioIdle
    /\ NmIdle
    /\ DiffIdle
    /\ NetIdle
    /\ OvsIdle
    /\ RpcIdle
    /\ DocIdle
    /\ vec_table \in VecTables
    /\ vec_out = <<>>

NextVec == vec_to_vec

SpecVec == InitVec /\ [][NextVec]_vars

----------------------------------------------------------------------------
(* Properties of apply(): the checkpoint and the retry harness *)

CallsOf(p, ops) == SelectSeq(calls[p], LAMBDA c : c.op \in ops)
NumCalls(p, op) == Len(CallsOf(p, {op}))
Created(p) == NumCalls(p, "checkpoint_create") = 1

PhaseCalls(p) == CallsOf(p, {"nm_apply_delete", "nm_apply_add", "nm_apply_change"})
BackendSucceeded(p) ==
    /\ Len(PhaseCalls(p)) = 3
    /\ \A i \in 1..3 : PhaseCalls(p)[i].ok
ExtendSucceeded(p) ==
    \E i \in DOMAIN calls[p] :
        calls[p][i].op = "checkpoint_timeout_extend" /\ calls[p][i].ok
VerifySucceeded(p) == cfg[p].no_verify \/ last_outcome[p] = "Ok"
AllSucceeded(p) == BackendSucceeded(p) /\ ExtendSucceeded(p) /\ VerifySucceeded(p)

\* The error of the step that failed inside the checkpoint: a failed backend
\* call, or else the latest verification attempt.
FailedBackendCalls(p) ==
    { i \in DOMAIN calls[p] :
        /\ calls[p][i].op \in {"nm_api_new", "nm_apply_delete", "nm_apply_add",
                               "nm_apply_change", "checkpoint_timeout_extend"}
        /\ ~calls[p][i].ok }
StepError(p) ==
    IF FailedBackendCalls(p) # {}
        THEN Err("PluginFailure", calls[p][CHOOSE i \in FailedBackendCalls(p) : TRUE].op, 0)
        ELSE Err(last_outcome[p], "verify", attempts[p])

\* C1: once an apply in NetworkManager mode has created its checkpoint, it
\* calls exactly one of checkpoint destroy and checkpoint rollback, and does so
\* as it returns: destroy only when backend apply, timeout extension and
\* verification all succeeded, rollback only when one of them failed, and it
\* then returns the error of the failed step whether the rollback call
\* succeeded or not.
C1_OneReleasePerCheckpoint ==
    \A p \in Procs :
        Created(p) =>
            LET d == NumCalls(p, "checkpoint_destroy")
                r == NumCalls(p, "checkpoint_rollback")
            IN  /\ d + r <= 1
                /\ (pc[p] = "done") <=> (d + r = 1)
                /\ d = 1 => AllSucceeded(p)
                /\ r = 1 => ~AllSucceeded(p) /\ result[p] = StepError(p)

\* A verification that failed to the end, and a rollback call that failed too.
C1_Witness ==
    \E p \in Procs :
        /\ pc[p] = "done"
        /\ result[p].at = "verify"
        /\ \E i \in DOMAIN calls[p] :
              calls[p][i].op = "checkpoint_rollback" /\ ~calls[p][i].ok

\* C2: an apply that returns the error of unknown-type resolution or of
\* change-set generation has created no checkpoint and has called no backend
\* (NetworkManager or kernel), and the daemon holds no checkpoint of it.
C2_ValidationFailsBeforeHost ==
    \A p \in Procs :
        result[p].at \in {"resolve_unknown_ifaces", "gen_state_for_apply"} =>
            /\ pc[p] = "done"
            /\ calls[p] = <<>>
            /\ checkpoint[p] = NoCheckpoint
            /\ nm_checkpoint.by # p

C2_Witness ==
    \E p \in Procs : pc[p] = "done" /\ result[p].at = "gen_state_for_apply"

\* C3: with count >= 1, with_retry runs the attempt at most count times; it
\* sleeps once after each failed attempt that is followed by another one and
\* at no other time; it returns Ok as soon as an attempt succeeds, and when
\* the count-th attempt fails it returns that attempt's error.
C3_WithRetry ==
    \A p \in Procs :
        count[p] >= 1 =>
            /\ attempts[p] <= count[p]
            /\ pc[p] = "with_retry" => attempts[p] = sleeps[p] /\ last_outcome[p] # "Ok"
            /\ pc[p] = "with_retry_sleep" =>
                  /\ attempts[p] = sleeps[p] + 1
                  /\ attempts[p] < count[p]
                  /\ last_outcome[p] \in {"VerificationError", "PluginFailure"}
            /\ last_outcome[p] = "Ok" => pc[p] = "func_returned" /\ func_result[p] = Ok
            /\ pc[p] = "func_returned" =>
                  /\ attempts[p] = sleeps[p] + 1
                  /\ last_outcome[p] # "Ok" =>
                        /\ attempts[p] = count[p]
                        /\ func_result[p] = Err(last_outcome[p], "verify", count[p])

\* Three attempts, all failed.
C3_Witness ==
    \E p \in Procs :
        /\ count[p] = 3
        /\ pc[p] = "func_returned"
        /\ attempts[p] = 3
        /\ func_result[p].kind = "VerificationError"

\* The retry count the claim names: 60 with an Ethernet interface that has
\* SR-IOV enabled in the desired state, 5 otherwise.
ClaimedRetryCount(p) ==
    IF \E n \in DOMAIN cfg[p].kernel_ifaces :
          /\ cfg[p].kernel_ifaces[n].iface_type = "ethernet"
          /\ cfg[p].kernel_ifaces[n].total_vfs # None
          /\ cfg[p].kernel_ifaces[n].total_vfs[1] > 0
        THEN 60
        ELSE 5

ExtendCalls(p) ==
    { i \in DOMAIN calls[p] : calls[p][i].op = "checkpoint_timeout_extend" }

\* C4: an apply in NetworkManager mode extends the checkpoint timeout at most
\* once, right after the last backend phase succeeded, and exactly once when
\* the backend apply succeeded; no verification attempt runs before the
\* extension succeeded; the extension is 1000 ms times the retry count (60
\* with SR-IOV, 5 without), and no more attempts than that count are made.
C4_TimeoutExtension ==
    \A p \in Procs :
        ~cfg[p].kernel_only =>
            /\ Cardinality(ExtendCalls(p)) <= 1
            /\ \A i \in ExtendCalls(p) :
                  /\ i > 1
                  /\ calls[p][i - 1].op = "nm_apply_change"
                  /\ calls[p][i - 1].ok
                  /\ calls[p][i].arg * 1000 = 1000 * ClaimedRetryCount(p)
            /\ attempts[p] > 0 => ExtendSucceeded(p)
            /\ attempts[p] <= ClaimedRetryCount(p)
            /\ (BackendSucceeded(p) /\ pc[p] # "checkpoint_timeout_extend") =>
                  Cardinality(ExtendCalls(p)) = 1

\* An SR-IOV apply that used all of its 60 attempts.
C4_Witness ==
    \E p \in Procs :
        /\ ~cfg[p].kernel_only
        /\ attempts[p] = 60
        /\ \E i \in ExtendCalls(p) : calls[p][i].arg = 60

CheckpointOps ==
    {"checkpoint_create", "checkpoint_timeout_extend", "checkpoint_destroy",
     "checkpoint_rollback"}

\* C11: an apply in kernel-only mode never creates, extends, destroys or rolls
\* back a checkpoint; its only backend call is the kernel apply; it verifies
\* only after that call succeeded and only when verification is enabled, with
\* at most 5 attempts; a failed kernel apply is returned at once and a fifth
\* failed verification is returned as it is, with no rollback in either case.
C11_KernelOnly ==
    \A p \in Procs :
        cfg[p].kernel_only =>
            /\ CallsOf(p, CheckpointOps) = <<>>
            /\ checkpoint[p] = NoCheckpoint
            /\ nm_checkpoint.by # p
            /\ \A d \in dropped : d.by # p
            /\ \A i \in DOMAIN calls[p] : i = 1 /\ calls[p][i].op = "nispor_apply"
            /\ attempts[p] <= 5
            /\ attempts[p] > 0 =>
                  /\ ~cfg[p].no_verify
                  /\ calls[p] = <<Call("nispor_apply", NoCheckpoint, 0, TRUE)>>
            /\ (pc[p] = "done" /\ calls[p] # <<>> /\ ~calls[p][1].ok) =>
                  /\ result[p] = Err("PluginFailure", "nispor_apply", 0)
                  /\ attempts[p] = 0
            /\ (pc[p] = "done" /\ calls[p] # <<>> /\ calls[p][1].ok) =>
                  /\ cfg[p].no_verify => result[p] = Ok /\ attempts[p] = 0
                  /\ (~cfg[p].no_verify /\ last_outcome[p] = "Ok") => result[p] = Ok
                  /\ (~cfg[p].no_verify /\ last_outcome[p] # "Ok") =>
                        /\ attempts[p] = 5
                        /\ result[p] = Err(last_outcome[p], "verify", 5)

\* A kernel-only apply whose fifth verification failed and was returned.
C11_Witness ==
    \E p \in Procs :
        /\ cfg[p].kernel_only
        /\ pc[p] = "done"
        /\ attempts[p] = 5
        /\ result[p].kind = "VerificationError"
        /\ calls[p] = <<Call("nispor_apply", NoCheckpoint, 0, TRUE)>>

\* The calls of an apply that has returned end with these operations.
CallsEndWith(p, ops) ==
    /\ Len(calls[p]) >= Len(ops)
    /\ \A i \in 1..Len(ops) : calls[p][Len(calls[p]) - Len(ops) + i].op = ops[i]

NoVerifyAttempt(p) ==
    /\ attempts[p] = 0
    /\ sleeps[p] = 0
    /\ last_outcome[p] = ""
    /\ pc[p] \notin {"with_retry", "with_retry_sleep"}

\* C12 as the claim states it: with verification disabled no attempt is made,
\* and an apply in NetworkManager mode whose backend apply succeeded has
\* extended the timeout and destroyed the checkpoint when it returns.
C12_AsClaimed ==
    \A p \in Procs :
        cfg[p].no_verify =>
            /\ NoVerifyAttempt(p)
            /\ (~cfg[p].kernel_only /\ pc[p] = "done" /\ BackendSucceeded(p)) =>
                  /\ NumCalls(p, "checkpoint_timeout_extend") = 1
                  /\ NumCalls(p, "checkpoint_destroy") = 1

\* C12: with verification disabled apply makes no verification attempt (no
\* retrieve after the apply, no verify, no sleep); in NetworkManager mode,
\* once the backend apply succeeded, it still calls the timeout extension, and
\* it destroys the checkpoint right after when that extension succeeded; when
\* the extension failed it rolls back instead and returns the extension's error.
C12_NoVerify ==
    \A p \in Procs :
        cfg[p].no_verify =>
            /\ NoVerifyAttempt(p)
            /\ (~cfg[p].kernel_only /\ pc[p] = "done" /\ BackendSucceeded(p)) =>
                  /\ NumCalls(p, "checkpoint_timeout_extend") = 1
                  /\ IF ExtendSucceeded(p)
                       THEN /\ CallsEndWith(p, <<"nm_apply_change",
                                  "checkpoint_timeout_extend", "checkpoint_destroy">>)
                            /\ NumCalls(p, "checkpoint_rollback") = 0
                       ELSE /\ CallsEndWith(p, <<"nm_apply_change",
                                  "checkpoint_timeout_extend", "checkpoint_rollback">>)
                            /\ NumCalls(p, "checkpoint_destroy") = 0
                            /\ result[p] = Err("PluginFailure", "checkpoint_timeout_extend", 0)

\* An apply without verification that extended the timeout and destroyed its
\* checkpoint.
C12_Witness ==
    \E p \in Procs :
        /\ cfg[p].no_verify
        /\ ~cfg[p].kernel_only
        /\ pc[p] = "done"
        /\ result[p] = Ok
        /\ BackendSucceeded(p)
        /\ CallsEndWith(p, <<"checkpoint_timeout_extend", "checkpoint_destroy">>)

\* A caller is inside the backend apply of NetworkManager mode.
InNmApply(p) ==
    pc[p] \in {"nm_api_new", "nm_apply_delete", "nm_apply_add", "nm_apply_change"}

\* The checkpoints the daemon dropped because their timeout ran out.
TimedOut == {d.token : d \in {x \in dropped : x.by = 0}}

\* What holds of every apply: every destroy and rollback call names the token
\* its own checkpoint_create returned, a call makes the daemon drop only the
\* checkpoint of the apply that calls, and an apply that fails with
\* CheckpointConflict has made no backend call at all.
OwnTokenOnly ==
    /\ \A p \in Procs : \A i \in DOMAIN calls[p] :
          calls[p][i].op \in {"checkpoint_destroy", "checkpoint_rollback"} =>
              /\ calls[p][i].token = checkpoint[p]
              /\ calls[p][i].token.by = p
    /\ \A d \in dropped : d.by # 0 => d.token.by = d.by
    /\ \A p \in Procs :
          result[p].kind = "CheckpointConflict" => pc[p] = "done" /\ calls[p] = <<>>

\* C5 as claimed: an apply destroys or rolls back only its own token, an
\* apply that meets another checkpoint fails with CheckpointConflict without
\* any backend call, and so two applies are never inside the backend apply at
\* the same time.
C5_AsClaimed ==
    /\ OwnTokenOnly
    /\ \A p, q \in Procs : p # q => ~(InNmApply(p) /\ InNmApply(q))

\* C5, amended: an apply destroys or rolls back only its own token, and an
\* apply that meets another checkpoint fails with CheckpointConflict without
\* any backend call; two applies are inside the backend apply at the same
\* time only when the rollback timeout of the checkpoint of one of them ran
\* out while it was applying.
C5_OwnCheckpointOnly ==
    /\ OwnTokenOnly
    /\ \A p, q \in Procs :
          (p # q /\ InNmApply(p) /\ InNmApply(q)) =>
              (checkpoint[p] \in TimedOut \/ checkpoint[q] \in TimedOut)

\* One apply has failed with CheckpointConflict while the other is inside
\* its backend apply.
C5_Witness ==
    \E p, q \in Procs :
        /\ p # q
        /\ result[p].kind = "CheckpointConflict"
        /\ pc[q] = "nm_apply_add"

\* C9: the phases of nm_apply are called in the order delete, add, change,
\* each one only after the one before it succeeded; the error of a failed
\* phase is what the closure returns, and apply returns it.
C9_PhaseOrder ==
    \A p \in Procs :
        LET ph == PhaseCalls(p) IN
        /\ Len(ph) <= 3
        /\ \A i \in DOMAIN ph :
              /\ ph[i].op = <<"nm_apply_delete", "nm_apply_add", "nm_apply_change">>[i]
              /\ i < Len(ph) => ph[i].ok
              /\ ~ph[i].ok =>
                    /\ func_result[p] = Err("PluginFailure", ph[i].op, 0)
                    /\ pc[p] = "done" => result[p] = func_result[p]

\* The add phase failed after the delete phase, and apply returned its error.
C9_Witness ==
    \E p \in Procs :
        /\ pc[p] = "done"
        /\ result[p].at = "nm_apply_add"
        /\ Len(PhaseCalls(p)) = 2

----------------------------------------------------------------------------
(* Up-priority resolution *)

\* How many interfaces are stacked from `name` up to its top controller.
RECURSIVE NestingLevel(_, _)
NestingLevel(tbl, name) ==
    IF tbl[name].controller = None \/ tbl[name].controller[1] \notin DOMAIN tbl
    THEN 1
    ELSE 1 + NestingLevel(tbl, tbl[name].controller[1])

NestingDepth(tbl) ==
    CHOOSE d \in 1..Cardinality(DOMAIN tbl) :
        /\ \E n \in DOMAIN tbl : NestingLevel(tbl, n) = d
        /\ \A n \in DOMAIN tbl : NestingLevel(tbl, n) <= d

PrioRan == prio_ifaces # <<>>
PrioReturned == PrioRan /\ prio_result # Pending

\* The passes before the last one did not converge.
EarlierPassesFailed ==
    \A i \in 1..(Len(passes) - 1) : ~passes[i]

\* C7: after set_up_priority returns Ok, every controller in the table has an
\* up_priority strictly smaller than that of each of its ports in the table,
\* whatever the insertion order.
C7_ControllerBeforePorts ==
    (PrioRan /\ prio_result = Ok) =>
        \A c \in DOMAIN prio_ifaces :
            \A port \in PortsOf(prio_ifaces, c) :
                prio_ifaces[c].up_priority < prio_ifaces[port].up_priority

\* A chain of four pushed in the order that takes all four passes.
C7_Witness ==
    /\ PrioRan
    /\ prio_result = Ok
    /\ NestingDepth(prio_ifaces) = 4
    /\ Len(passes) = INTERFACES_SET_PRIORITY_MAX_RETRY

\* What holds of every run of set_up_priority: at most four passes, Ok at the
\* first pass that converged, an error only after four passes that did not,
\* and Ok for every nesting of depth up to 4.
PriorityPasses ==
    /\ Len(passes) <= 4
    /\ (PrioRan /\ prio_result = Ok) =>
           /\ passes # <<>>
           /\ passes[Len(passes)]
           /\ EarlierPassesFailed
    /\ (PrioReturned /\ NestingDepth(prio_ifaces) <= 4) => prio_result = Ok
    /\ (PrioReturned /\ prio_result # Ok) =>
           /\ prio_result.kind = "InvalidArgument"
           /\ passes = <<FALSE, FALSE, FALSE, FALSE>>

\* C8 as claimed: at most four passes, Ok at the first pass that reports
\* convergence, depth 4 succeeds in any insertion order, and depth 5 fails
\* with InvalidArgument after the four passes.
C8_AsClaimed ==
    /\ PriorityPasses
    /\ (PrioReturned /\ NestingDepth(prio_ifaces) = 5) =>
           /\ prio_result # Ok
           /\ prio_result.kind = "InvalidArgument"
           /\ Len(passes) = 4

\* C8, amended: at most four passes, Ok at the first pass that reports
\* convergence, depth 4 succeeds in any insertion order; a nesting of depth 5
\* fails for some insertion orders only, and every failure is InvalidArgument
\* after four passes that did not converge.
C8_FourPasses ==
    /\ PriorityPasses
    /\ (PrioReturned /\ NestingDepth(prio_ifaces) = 5 /\ Len(passes) < 4) =>
           prio_result = Ok

\* A nesting of depth 5 that fails after the four passes.
C8_Witness ==
    /\ PrioReturned
    /\ NestingDepth(prio_ifaces) = 5
    /\ prio_result # Ok
    /\ Len(passes) = 4

----------------------------------------------------------------------------
(* The profile steps of apply_single_state *)

NmOps == [i \in 1..Len(nm_calls) |-> nm_calls[i].op]

IsPrefixOf(a, b) == Len(a) <= Len(b) /\ \A i \in 1..Len(a) : a[i] = b[i]

\* The connection `cur` has a route that `new` does not have, once both are
\* read with the defaults of their settings.
LosesRoute(new, cur) ==
    \E fam \in {"ipv4", "ipv6"} :
        LET cur_routes == clone_normalized_routes(cur[fam], fam = "ipv6")
            new_routes == clone_normalized_routes(new[fam], fam = "ipv6")
        IN  \E i \in 1..Len(cur_routes) :
                \A j \in 1..Len(new_routes) : new_routes[j] # cur_routes[i]

\* What the step `op` was called with, when it has been called.
NmArgOf(op) ==
    LET i == CHOOSE j \in 1..Len(nm_calls) : nm_calls[j].op = op
    IN  nm_calls[i].arg

NmCalled(op) == \E j \in 1..Len(nm_calls) : nm_calls[j].op = op

\* C10: within apply_single_state the steps run in the order deactivate the
\* already-activated connections that are losing routes, save the new
\* profiles, delete the existing profiles they supersede, activate the saved
\* profiles, deactivate the profiles of the interfaces desired Down; each runs
\* only after the previous one succeeded.
C10_ProfileStepOrder ==
    /\ IsPrefixOf(NmOps, <<"deactivate_first", "save", "delete_exist", "activate",
                           "deactivate_down">>)
    /\ \A i \in 1..(Len(nm_calls) - 1) : nm_calls[i].ok
    /\ nm_result = Ok /\ nm_pc = "done" /\ net_state # <<>> =>
           Len(nm_calls) = 5 /\ nm_calls[5].ok
    /\ NmCalled("deactivate_first") =>
           \A c \in Eth1Profiles \cup Eth2Profiles :
               SeqContains(NmArgOf("deactivate_first"), c) <=>
                   /\ SeqContains(nm_local.exist_nm_conns, c)
                   /\ c.uuid # None
                   /\ c.uuid[1] \in Uuids(nm_local.activated_nm_conns)
                   /\ \E i \in 1..Len(nm_local.nm_conns_to_activate) :
                          /\ nm_local.nm_conns_to_activate[i].uuid = c.uuid
                          /\ LosesRoute(nm_local.nm_conns_to_activate[i], c)
    /\ NmCalled("save") => NmArgOf("save") = nm_local.nm_conns_to_activate
    /\ NmCalled("delete_exist") =>
           \A i \in 1..Len(NmArgOf("delete_exist")) :
               /\ SeqContains(nm_local.exist_nm_conns, NmArgOf("delete_exist")[i])
               /\ ~SeqContains(NmArgOf("save"), NmArgOf("delete_exist")[i])
    /\ NmCalled("activate") => NmArgOf("activate") = NmArgOf("save")
    /\ NmCalled("deactivate_down") =>
           \A i \in 1..Len(NmArgOf("deactivate_down")) :
               \E k \in 1..Len(net_state) :
                   /\ net_state[k].state = "down"
                   /\ net_state[k].name = NmArgOf("deactivate_down")[i].iface_name

\* All five steps ran, the first on a connection losing a route and the last
\* on the profile of an interface desired Down.
C10_Witness ==
    /\ nm_result = Ok
    /\ Len(nm_calls) = 5
    /\ nm_calls[1].arg # <<>>
    /\ nm_calls[5].arg # <<>>

----------------------------------------------------------------------------
(* The diff against a verified current state *)

DiffIsEmpty(out) ==
    /\ AllIfaces(out.add) = {}
    /\ AllIfaces(out.chg) = {}
    /\ AllIfaces(out.del) = {}

----------------------------------------------------------------------------
(* Properties of gen_state_for_apply *)

\* gen_state_for_apply has returned Ok.
GenReturned == diff_pc = "apply"

Named(ifaces, name) == {x \in AllIfaces(ifaces) : x.name = name}

\* The same interface, whatever priority set_up_priority gave it and
\* whatever MAC address apply_copy_mac_from gave it.
SameConfig(a, b) ==
    [a EXCEPT !.up_priority = 0, !.mac_address = None]
        = [b EXCEPT !.up_priority = 0, !.mac_address = None]

\* The same but for the addresses the change set may have taken from current.
SameButIp(a, b) == SameConfig([a EXCEPT !.ipv4 = None], [b EXCEPT !.ipv4 = None])

\* C13: every desired interface that is not absent is emitted into exactly
\* one of add and change: when its name is a key of current's kernel map,
\* change holds it and add holds nothing of that name; otherwise add holds it
\* as it was desired and change holds nothing of that name.  (In change it is
\* the desired interface with current's type, when no other desired
\* interface shares its name.)
C13_AddOrChange ==
    GenReturned =>
        \A d \in AllIfaces(desire) :
            ~is_absent(d) =>
                IF d.name \in DOMAIN current.kernel_ifaces
                THEN /\ Named(diff_out.add, d.name) = {}
                     /\ Named(diff_out.chg, d.name) # {}
                     /\ Cardinality(Named(desire, d.name)) = 1 =>
                           \A x \in Named(diff_out.chg, d.name) :
                               SameButIp(x, [d EXCEPT !.iface_type =
                                   current.kernel_ifaces[d.name].iface_type])
                ELSE /\ Named(diff_out.chg, d.name) = {}
                     /\ \E x \in Named(diff_out.add, d.name) : SameConfig(x, d)

\* One desired interface went to change and another one to add.
C13_Witness ==
    /\ GenReturned
    /\ \E d \in AllIfaces(desire) :
          /\ ~is_absent(d)
          /\ d.name \in DOMAIN current.kernel_ifaces
          /\ Named(diff_out.chg, d.name) # {}
    /\ \E d \in AllIfaces(desire) :
          /\ ~is_absent(d)
          /\ d.name \notin DOMAIN current.kernel_ifaces
          /\ Named(diff_out.add, d.name) # {}

\* C14: every interface of the emitted change set whose name is a key of
\* current's kernel map carries the type of that current interface, whatever
\* type the desire declared for it.
C14_CurrentTypeInChange ==
    GenReturned =>
        \A x \in AllIfaces(diff_out.chg) :
            x.name \in DOMAIN current.kernel_ifaces =>
                x.iface_type = current.kernel_ifaces[x.name].iface_type

\* bond0 was desired as a Linux bridge, current has it as a bond, and the
\* change entry is a bond.
C14_Witness ==
    /\ GenReturned
    /\ \E d \in AllIfaces(desire), x \in AllIfaces(diff_out.chg) :
          /\ d.name = x.name
          /\ x.name \in DOMAIN current.kernel_ifaces
          /\ ~is_absent(d)
          /\ d.iface_type # x.iface_type
          /\ d.iface_type = "linux-bridge"
          /\ x.iface_type = "bond"

\* The current interfaces a desired absent interface matches: the same name
\* and, unless the desired type is unknown, the same type.
DelMatches(d) ==
    {c \in AllIfaces(current) :
        /\ c.name = d.name
        /\ d.iface_type = "unknown" \/ d.iface_type = c.iface_type}

\* The delete entries that are the desired interface d under some type.
DelEmitted(d) ==
    {x \in AllIfaces(diff_out.del) :
        SameConfig(x, [d EXCEPT !.iface_type = x.iface_type])}

\* C15: gen_state_for_apply raises no error for a desired absent interface
\* (when it fails, a copy-mac-from is what failed), and the delete set holds
\* it once per matching current interface, under that interface's type, and
\* under no other type: nothing when no current interface matches.
C15_DeletePerMatch ==
    /\ diff_pc = "failed" => \E d \in AllIfaces(desire) : d.copy_mac_from # None
    /\ GenReturned =>
          \A d \in AllIfaces(desire) :
              is_absent(d) =>
                  /\ {x.iface_type : x \in DelEmitted(d)} =
                         {c.iface_type : c \in DelMatches(d)}
                  /\ Cardinality(DelEmitted(d)) = Cardinality(DelMatches(d))

\* br0 is desired absent with no type, current has the OVS bridge br0 and the
\* internal interface br0, and both are deleted; bond0 is desired absent and
\* current has none.
C15_Witness ==
    /\ GenReturned
    /\ \E d \in AllIfaces(desire) :
          /\ is_absent(d)
          /\ d.iface_type = "unknown"
          /\ {x.iface_type : x \in DelEmitted(d)} = {"ovs-bridge", "ovs-interface"}
    /\ \E d \in AllIfaces(desire) :
          /\ is_absent(d)
          /\ d.name = "bond0"
          /\ DelMatches(d) = {}
          /\ Named(diff_out.del, "bond0") = {}

\* The parent the cascade reads for a current kernel interface: that of its
\* change-set entry when it has one, that of current otherwise.
CascadeParent(c) ==
    IF c.name \in DOMAIN diff_out.chg.kernel_ifaces
    THEN parent(diff_out.chg.kernel_ifaces[c.name])
    ELSE parent(c)

InDelete(name) == name \in DOMAIN diff_out.del.kernel_ifaces

\* C16: in the emitted delete set, every current kernel interface whose
\* parent (read from its change-set entry when it has one, otherwise from
\* current) is in delete is itself in delete, children of the interfaces the
\* cascade added included.
C16_OrphansDeleted ==
    GenReturned =>
        \A n \in DOMAIN current.kernel_ifaces :
            LET up == CascadeParent(current.kernel_ifaces[n])
            IN  (up # None /\ InDelete(up[1])) => InDelete(n)

\* x is a current interface that a desired absent interface matches.
DeletedAsDesired(x) ==
    \E d \in AllIfaces(desire) :
        /\ is_absent(d)
        /\ \E c \in DelMatches(d) : c.name = x.name /\ c.iface_type = x.iface_type

\* x is a current kernel interface whose parent is in delete.
DeletedAsOrphan(x) ==
    /\ x.name \in DOMAIN current.kernel_ifaces
    /\ x.iface_type = current.kernel_ifaces[x.name].iface_type
    /\ LET up == CascadeParent(current.kernel_ifaces[x.name])
       IN  up # None /\ InDelete(up[1])

\* C17: the emitted delete set holds only current interfaces that a desired
\* absent interface matches and current interfaces whose parent is in delete;
\* a port of a deleted controller that is neither is not in delete.
C17_OnlyMatchesAndOrphans ==
    GenReturned =>
        /\ \A x \in AllIfaces(diff_out.del) : DeletedAsDesired(x) \/ DeletedAsOrphan(x)
        /\ \A n \in DOMAIN current.kernel_ifaces :
               LET c == current.kernel_ifaces[n]
               IN  (/\ c.controller # None
                    /\ InDelete(c.controller[1])
                    /\ ~DeletedAsDesired(c)
                    /\ ~DeletedAsOrphan(c)) => ~InDelete(n)

\* bond0 is desired absent, current has it with the ports eth1 and eth2, and
\* delete holds bond0 alone.
C17_Witness ==
    /\ GenReturned
    /\ \A n \in {"eth1", "eth2"} :
          /\ n \in DOMAIN current.kernel_ifaces
          /\ current.kernel_ifaces[n].controller = Some("bond0")
    /\ \E d \in AllIfaces(desire) : is_absent(d) /\ d.name = "bond0"
    /\ {x.name : x \in AllIfaces(diff_out.del)} = {"bond0"}

\* C18: when a desired interface turns DHCP off and gives no static address
\* while current has DHCP on for it, its entry in the emitted change set has
\* DHCP off and the addresses it has in current.
C18_DhcpOnToOff ==
    GenReturned =>
        \A d \in AllIfaces(desire) :
            (/\ ~is_absent(d)
             /\ d.ipv4 # None
             /\ ~d.ipv4[1].dhcp
             /\ d.ipv4[1].addresses = {}
             /\ d.name \in DOMAIN current.kernel_ifaces
             /\ current.kernel_ifaces[d.name].ipv4 # None
             /\ current.kernel_ifaces[d.name].ipv4[1].dhcp) =>
                /\ d.name \in DOMAIN diff_out.chg.kernel_ifaces
                /\ diff_out.chg.kernel_ifaces[d.name].ipv4 =
                       Some(InterfaceIp(FALSE,
                           current.kernel_ifaces[d.name].ipv4[1].addresses))

\* eth1 turned DHCP off and its change entry carries the leased address.
C18_Witness ==
    /\ GenReturned
    /\ "eth1" \in DOMAIN desire.kernel_ifaces
    /\ desire.kernel_ifaces["eth1"].ipv4 = Some(InterfaceIp(FALSE, {}))
    /\ "eth1" \in DOMAIN current.kernel_ifaces
    /\ current.kernel_ifaces["eth1"].ipv4 = Some(InterfaceIp(TRUE, {"192.0.2.10/24"}))
    /\ "eth1" \in DOMAIN diff_out.chg.kernel_ifaces
    /\ diff_out.chg.kernel_ifaces["eth1"].ipv4 = Some(InterfaceIp(FALSE, {"192.0.2.10/24"}))

----------------------------------------------------------------------------
(* Properties of resolve_unknown_ifaces *)

ResolveReturned == diff_pc = "resolved"

\* The desired interfaces of type Unknown that are not absent.
UnknownPresent ==
    {d \in AllIfaces(desire) : d.iface_type = "unknown" /\ ~is_absent(d)}

CurNamed(name) == {c \in AllIfaces(current) : c.name = name}

\* C19: resolve_unknown_ifaces returns Ok exactly when every desired
\* interface of type Unknown that is not absent has one current interface of
\* its name, and the table then holds it under that interface's type; with
\* no such current interface, or with two or more, it returns InvalidArgument.
C19_ExactlyOneMatch ==
    ResolveReturned =>
        /\ resolved.result = Ok <=>
              \A d \in UnknownPresent : Cardinality(CurNamed(d.name)) = 1
        /\ resolved.result # Ok =>
              /\ resolved.result.kind = "InvalidArgument"
              /\ resolved.result.n # 1
              /\ \E d \in UnknownPresent :
                    /\ d.name = resolved.result.at
                    /\ Cardinality(CurNamed(d.name)) = resolved.result.n
        /\ resolved.result = Ok =>
              \A d \in UnknownPresent :
                  \A c \in CurNamed(d.name) :
                      [d EXCEPT !.iface_type = c.iface_type] \in AllIfaces(resolved.ifaces)

\* br0 is desired up with no type and current has both an OVS bridge and an
\* internal interface of that name: InvalidArgument.
C19_Witness ==
    /\ ResolveReturned
    /\ resolved.result = Err("InvalidArgument", "br0", 2)
    /\ \E d \in UnknownPresent : d.name = "br0"

\* C20 as the claim states it: after resolve_unknown_ifaces returned Ok the
\* table holds no interface of type Unknown.
C20_AsClaimed ==
    (ResolveReturned /\ resolved.result = Ok) =>
        \A x \in AllIfaces(resolved.ifaces) : x.iface_type # "unknown"

\* The desired interfaces of type Unknown that are absent.
UnknownAbsent ==
    {d \in AllIfaces(desire) : d.iface_type = "unknown" /\ is_absent(d)}

\* C20: after resolve_unknown_ifaces returned Ok, the only interfaces of type
\* Unknown left in the table are absent ones whose name no current interface
\* has, kept as they were; every other Unknown entry has been replaced: one
\* that is not absent by itself under the type found, an absent one by one
\* absent entry per current interface of its name, with that interface's type.
C20_UnknownReplaced ==
    (ResolveReturned /\ resolved.result = Ok) =>
        /\ \A x \in AllIfaces(resolved.ifaces) :
               x.iface_type = "unknown" =>
                   /\ x \in UnknownAbsent
                   /\ CurNamed(x.name) = {}
        /\ \A d \in UnknownAbsent :
               /\ \A c \in CurNamed(d.name) :
                      [c EXCEPT !.state = "absent"] \in AllIfaces(resolved.ifaces)
               /\ {x.iface_type : x \in Named(resolved.ifaces, d.name)} =
                      IF CurNamed(d.name) = {} THEN {"unknown"}
                      ELSE {c.iface_type : c \in CurNamed(d.name)}
        /\ \A d \in UnknownPresent :
               {x.iface_type : x \in Named(resolved.ifaces, d.name)} =
                   {c.iface_type : c \in CurNamed(d.name)}

\* br0 was desired absent with no type, current has both an OVS bridge and an
\* internal interface of that name, and the table holds both as absent.
C20_Witness ==
    /\ ResolveReturned
    /\ resolved.result = Ok
    /\ \E d \in UnknownAbsent : d.name = "br0"
    /\ {x.iface_type : x \in Named(resolved.ifaces, "br0")} = {"ovs-bridge", "ovs-interface"}
    /\ \A x \in Named(resolved.ifaces, "br0") : is_absent(x)

----------------------------------------------------------------------------
(* copy-mac-from *)

\* gen_state_for_apply has returned, Ok or Err.
GenEnded == diff_pc \in {"apply", "failed"}

\* The desired interfaces that ask for the MAC address of another one and
\* are of a type that may.
CopiesMac(d) ==
    /\ d.iface_type \in {"bond", "linux-bridge", "ovs-interface"}
    /\ d.copy_mac_from # None

\* The MAC address the source of d should give: Some(address), or None when
\* the source is not a kernel interface of current or has no address.
SourceMac(d) ==
    LET S == d.copy_mac_from[1]
    IN  IF S \notin DOMAIN current.kernel_ifaces THEN None
        ELSE LET src == current.kernel_ifaces[S]
             IN  IF src.permanent_mac_address \notin {None, Some("")}
                 THEN src.permanent_mac_address
                 ELSE IF src.mac_address \notin {None, Some("")}
                 THEN src.mac_address
                 ELSE None

\* C21: when a desired Bond, LinuxBridge or OvsInterface has copy-mac-from S,
\* the diff fails with InvalidArgument if S is no kernel interface of
\* current or has neither a permanent nor a runtime MAC address, and
\* otherwise emits the interface with S's permanent MAC address, or with the
\* runtime one when the permanent one is empty; a desired interface of any
\* other type is emitted with the MAC address it was desired with.
C21_CopyMacFrom ==
    GenEnded =>
        /\ \A d \in AllIfaces(desire) :
              CopiesMac(d) /\ SourceMac(d) = None =>
                  /\ diff_pc = "failed"
                  /\ diff_out.err # Ok /\ diff_out.err.kind = "InvalidArgument"
                  /\ DiffIsEmpty(diff_out)
        /\ GenReturned =>
              \A d \in AllIfaces(desire) :
                  \A x \in Named(diff_out.add, d.name) \cup Named(diff_out.chg, d.name)
                           \cup Named(diff_out.del, d.name) :
                      x.mac_address =
                          IF CopiesMac(d) THEN SourceMac(d) ELSE d.mac_address

\* bond0 took eth1's permanent MAC address in place of its own, in another
\* run the runtime one, and in a third the diff failed for want of either.
C21_Witness ==
    /\ GenEnded
    /\ \E d \in AllIfaces(desire) :
          /\ CopiesMac(d)
          /\ d.copy_mac_from = Some("eth1")
          /\ "eth1" \in DOMAIN current.kernel_ifaces
          /\ current.kernel_ifaces["eth1"].permanent_mac_address = Some("02:00:00:00:00:02")
          /\ current.kernel_ifaces["eth1"].mac_address = Some("02:00:00:00:00:01")
          /\ d.mac_address = Some("02:00:00:00:00:0a")
          /\ \E x \in Named(diff_out.chg, d.name) :
                x.mac_address = Some("02:00:00:00:00:02")
----------------------------------------------------------------------------
(* Properties of Interfaces::verify *)

\* verify has returned.
VerifyReturned == verified # Pending

\* Desired to be gone: absent, or virtual and down.
Gone(d) == d.state = "absent" \/ (d.iface_type # "ethernet" /\ d.state = "down")

Physical(c) == c.iface_type = "ethernet"

\* The current interface a desired one is found as: an OVS bridge by name
\* and type among the user-space ones, any other by name among the kernel
\* ones.
FoundAs(d) ==
    IF d.iface_type = "ovs-bridge"
    THEN {c \in AllIfaces(current) : c.name = d.name /\ c.iface_type = "ovs-bridge"}
    ELSE {c \in AllIfaces(current) : c.name = d.name /\ c.iface_type # "ovs-bridge"}

\* C22: verify fails with VerificationError when a desired interface that is
\* absent, or virtual and down, is found in current as a virtual interface
\* or as a physical one that is up, and when a desired interface that is
\* neither is missing from current; it fails with no other kind of error,
\* and it passes when every desired interface is absent (or virtual and
\* down) and is missing from current or found as a physical interface that
\* is not up.
C22_VerifyAbsent ==
    VerifyReturned =>
        /\ ~verified.ok => verified.kind = "VerificationError"
        /\ \A d \in AllIfaces(desire) :
              /\ (Gone(d) /\ \E c \in FoundAs(d) : ~Physical(c)) => ~verified.ok
              /\ (Gone(d) /\ \E c \in FoundAs(d) : Physical(c) /\ c.state = "up")
                     => ~verified.ok
              /\ (~Gone(d) /\ FoundAs(d) = {}) => ~verified.ok
        /\ (\A d \in AllIfaces(desire) :
                /\ Gone(d)
                /\ \A c \in FoundAs(d) : Physical(c) /\ c.state # "up")
              => verified = Ok

\* eth1 is desired absent and current still has it up: verify failed on it.
C22_Witness ==
    /\ VerifyReturned
    /\ \E d \in AllIfaces(desire) :
          /\ d.name = "eth1" /\ d.state = "absent"
          /\ \E c \in FoundAs(d) : Physical(c) /\ c.state = "up"
    /\ verified = Err("VerificationError", "eth1", 0)
----------------------------------------------------------------------------
(* Properties of the rule folding *)

\* NetworkState::gen_state_for_apply has returned.
NetReturned == net_out.result # Pending

\* The route tables whose rules changed, and the changed rules of a table.
ChangedRules ==
    LET des == ConfigOf(net_desire.rules)
        cur == ConfigOf(net_current.rules)
    IN  {des[i] : i \in 1..Len(des)} \ {cur[i] : i \in 1..Len(cur)}

ChangedTables == {r.table_id : r \in ChangedRules}

\* The config routes of a state that are of table t and name a next hop
\* interface, in the order of the list.
TableRoutes(state, t) ==
    SelectSeq(ConfigOf(state.routes),
        LAMBDA r : r.table_id = Some(t) /\ r.next_hop_iface # None)

\* The owner of table t: from the desire's routes when it has one for t, else
\* from current's, else none.
Owner(t) ==
    IF TableRoutes(net_desire, t) # <<>>
    THEN TableRoutes(net_desire, t)[1].next_hop_iface
    ELSE IF TableRoutes(net_current, t) # <<>>
    THEN TableRoutes(net_current, t)[1].next_hop_iface
    ELSE None

NetEmitted == AllIfaces(net_out.add) \cup AllIfaces(net_out.chg)

----------------------------------------------------------------------------
(* Properties of ovsdb_apply_global_conf *)

OvsReturned == ovs_result # Pending

\* The call got as far as building its transaction: a change of the ovs-db
\* or of the ovn section was flagged and the connection was made.
OvsReached ==
    /\ OvsReturned
    /\ ovs_merged.ovsdb_is_changed \/ ovs_merged.ovn_is_changed
    /\ ovs_result.kind # "Bug"

EmittedOps == IF ovs_requests = <<>> THEN <<>> ELSE ovs_requests[1].operations

Emitted(o) == \E i \in DOMAIN EmittedOps : EmittedOps[i] = o

UpdatedColumns ==
    {c \in {"external_ids", "other_config"} :
        Emitted([op |-> "update", table |-> "Open_vSwitch", column |-> c, row |-> {}])}

\* A mutate that only touches ovn-bridge-mappings is the ovn section's.
OfOvnSection(o) ==
    /\ o.op = "mutate"
    /\ \A i \in DOMAIN o.mutations :
          /\ o.mutations[i].column = "external_ids"
          /\ IF o.mutations[i].mutator = "delete"
             THEN o.mutations[i].value = {"ovn-bridge-mappings"}
             ELSE Keys(o.mutations[i].value) = {"ovn-bridge-mappings"}

SectionMutates ==
    {i \in DOMAIN EmittedOps :
        EmittedOps[i].op = "mutate" /\ ~OfOvnSection(EmittedOps[i])}

\* The columns the document asks to purge.
AskedPurge ==
    IF ovs_merged.desired = None THEN {}
    ELSE LET d == ovs_merged.desired[1]
         IN  IF d.external_ids = None /\ d.other_config = None
             THEN {"external_ids", "other_config"}
             ELSE {c \in {"external_ids", "other_config"} : d[c] = Some({})}

PurgesAsAsked ==
    /\ UpdatedColumns = AskedPurge
    /\ ovs_merged.desired = None => SectionMutates = {}

\* C24, as stated: whenever the call has returned, the empty-map updates it
\* emitted are those of the columns the document asks to purge.
C24_AsClaimed == OvsReturned => PurgesAsAsked

\* C24: once a change of the ovs-db or ovn section is flagged and the
\* connection to the database is made, the call emits an empty-map update
\* for both columns when the section is {} or has both maps empty, for one
\* column only when just that column's map is empty, and no update and no
\* mutate for the ovs-db section when the section is not supplied.
C24_PurgeUpdates == OvsReached => PurgesAsAsked

C24_Witness ==
    /\ OvsReached
    /\ ovs_merged.desired # None
    /\ ovs_merged.desired[1].external_ids = Some({})
    /\ ovs_merged.desired[1].other_config = Some({<<"k1", Some("new")>>})
    /\ UpdatedColumns = {"external_ids"}
    /\ SectionMutates # {}

OvsColumns == {"external_ids", "other_config"}

\* The columns whose desired map is not empty, and that map.
NonEmptyColumns ==
    IF ovs_merged.desired = None THEN {}
    ELSE {c \in OvsColumns :
             ovs_merged.desired[1][c] # None /\ ovs_merged.desired[1][c][1] # {}}

DesiredMap(c) == ovs_merged.desired[1][c][1]

NonNull(c) == {<<kv[1], kv[2][1]>> : kv \in {d \in DesiredMap(c) : d[2] # None}}

MutationsAt(o, c, mutator) ==
    {i \in DOMAIN o.mutations :
        o.mutations[i].column = c /\ o.mutations[i].mutator = mutator}

\* The mutate of the ovs-db section deletes exactly the named keys of column
\* c, then inserts exactly the named keys that have a value.
ExactMutations(c) ==
    /\ Cardinality(SectionMutates) = 1
    /\ LET o == EmittedOps[CHOOSE i \in SectionMutates : TRUE]
           dels == MutationsAt(o, c, "delete")
           inss == MutationsAt(o, c, "insert")
       IN  /\ Cardinality(dels) = 1
           /\ \A i \in dels : o.mutations[i].value = Keys(DesiredMap(c))
           /\ Cardinality(inss) = IF NonNull(c) = {} THEN 0 ELSE 1
           /\ \A i \in inss : o.mutations[i].value = NonNull(c)
           /\ \A i \in dels, j \in inss : i < j

\* Operation o names key k of column c.
Names(o, c, k) ==
    IF o.op = "update" THEN FALSE
    ELSE \E i \in DOMAIN o.mutations :
            /\ o.mutations[i].column = c
            /\ \/ o.mutations[i].mutator = "delete" /\ k \in o.mutations[i].value
               \/ o.mutations[i].mutator = "insert" /\ k \in Keys(o.mutations[i].value)

\* One call, from the row it found to the row it left; the keys in
\* `managed` are left out of what must be preserved.
MutateStep(managed) ==
    \A c \in NonEmptyColumns :
        OvsReached' =>
            /\ ExactMutations(c)'
            /\ \A kv \in ovs_row[c] :
                   kv[1] \notin Keys(DesiredMap(c)) \cup managed =>
                       /\ \A i \in DOMAIN EmittedOps' : ~Names(EmittedOps'[i], c, kv[1])
                       /\ ovs_result'.ok => kv \in ovs_row'[c]
            /\ ovs_result'.ok =>
                   \A kv \in DesiredMap(c) :
                       IF kv[2] = None
                       THEN kv[1] \notin Keys(ovs_row'[c])
                       ELSE {r \in ovs_row'[c] : r[1] = kv[1]} = {<<kv[1], kv[2][1]>>}

Reinserts(i, v) ==
    LET o == EmittedOps[i]
    IN  /\ o.op = "mutate"
        /\ \E d, n \in DOMAIN o.mutations :
              /\ d < n
              /\ o.mutations[d].column = "external_ids"
              /\ o.mutations[d].mutator = "delete"
              /\ o.mutations[d].value = {"ovn-bridge-mappings"}
              /\ o.mutations[n].column = "external_ids"
              /\ o.mutations[n].mutator = "insert"
              /\ o.mutations[n].value = {<<"ovn-bridge-mappings", v>>}

\* C26: when the transaction purges external_ids and an OVN bridge mapping
\* value exists, the one transaction holds, after its purge operations, a
\* mutate that deletes and then re-inserts ovn-bridge-mappings in
\* external_ids, so the mapping is what the purged column is left with; a
\* call sends at most one transact request.
C26_OvnReinjected ==
    /\ Len(ovs_requests) <= 1
    /\ (/\ OvsReturned
        /\ "external_ids" \in UpdatedColumns
        /\ ovs_merged.ovn_map_value # None) =>
           /\ \E i \in DOMAIN EmittedOps :
                 /\ Reinserts(i, ovs_merged.ovn_map_value[1])
                 /\ \A j \in DOMAIN EmittedOps : EmittedOps[j].op = "update" => j < i
           /\ ovs_result.ok =>
                 ovs_row.external_ids =
                     {<<"ovn-bridge-mappings", ovs_merged.ovn_map_value[1]>>}

C26_Witness ==
    /\ OvsReturned
    /\ ovs_result.ok
    /\ UpdatedColumns = {"external_ids", "other_config"}
    /\ ~ovs_merged.ovn_is_changed
    /\ ovs_merged.ovn_map_value = Some("net1:br1")
    /\ Len(ovs_requests) = 1
    /\ \E i \in DOMAIN EmittedOps : i = 3 /\ Reinserts(i, "net1:br1")
    /\ ovs_row = OvsDbGlobalConfig({<<"ovn-bridge-mappings", "net1:br1">>}, {})
----------------------------------------------------------------------------
(* Properties of OvsDbJsonRpc::recv *)

RpcReturned == rpc_out.result # Pending

\* The reply reached recv whole.
ReplyRead ==
    /\ rpc_socket.fault = "none"
    /\ read_response(rpc_socket.reads) = SumOf(rpc_socket.reads)

\* C27: recv(transaction_id) returns the reply's result only when the
\* reply's id equals transaction_id and its error is null; a reply with
\* another id, and a reply with an error, each yield PluginFailure and no
\* result.
C27_Recv ==
    RpcReturned =>
        /\ rpc_out.result.ok =>
              /\ ReplyRead
              /\ rpc_socket.reply.id = rpc_transaction_id
              /\ rpc_socket.reply.error = None
              /\ rpc_out.value = Some(rpc_socket.reply.result)
        /\ (ReplyRead /\ rpc_socket.reply.id # rpc_transaction_id) =>
              rpc_out.result.kind = "PluginFailure" /\ rpc_out.value = None
        /\ (ReplyRead /\ rpc_socket.reply.error # None) =>
              rpc_out.result.kind = "PluginFailure" /\ rpc_out.value = None
        /\ (ReplyRead /\ rpc_socket.reply.id = rpc_transaction_id
                /\ rpc_socket.reply.error = None) => rpc_out.result.ok

C27_Witness ==
    /\ RpcReturned
    /\ ReplyRead
    /\ rpc_socket.reads = <<BUFFER_SIZE, 100>>
    /\ rpc_socket.reply.id = 2
    /\ rpc_transaction_id = 1
    /\ rpc_socket.reply.error = None
    /\ rpc_out = RpcOut(Err("PluginFailure", "id mismatch", 2), None)
----------------------------------------------------------------------------
(* Properties of the NetworkState deserializer *)

SupportedKeys == {SECTION_KEYS[i] : i \in DOMAIN SECTION_KEYS}

\* C28: deserializing a document that holds a top-level key other than the
\* supported ones fails with an error instead of producing a state.
C28_UnknownKeyRejected ==
    (/\ parsed.result # Pending
     /\ document.kind = "mapping"
     /\ document.keys \ SupportedKeys # {}) => ~parsed.result.ok
----------------------------------------------------------------------------
(* Properties of Interfaces::to_vec *)

\* vec holds every interface of both maps once.
EveryOnce(vec) ==
    /\ {vec[i] : i \in DOMAIN vec} = AllIfaces(vec_table)
    /\ Len(vec) = Cardinality(DOMAIN vec_table.kernel_ifaces)
                      + Cardinality(DOMAIN vec_table.user_ifaces)

\* vec is ordered by up_priority and, among equal priorities, by name.
ByPriorityThenName(vec) ==
    \A i, j \in DOMAIN vec :
        i < j =>
            \/ vec[i].up_priority < vec[j].up_priority
            \/ /\ vec[i].up_priority = vec[j].up_priority
               /\ NameRank(vec[i].name) <= NameRank(vec[j].name)

\* C29: to_vec returns every interface of the kernel map and of the
\* user-space map exactly once, ordered by up_priority and then by name, and
\* in the same order for tables of equal contents.
C29_ToVecOrder ==
    /\ \A n \in DOMAIN vec_out : EveryOnce(vec_out[n]) /\ ByPriorityThenName(vec_out[n])
    /\ \A n, m \in DOMAIN vec_out : vec_out[n] = vec_out[m]

\* What does hold: every interface once, by up_priority and then by name.
ToVecSorted ==
    \A n \in DOMAIN vec_out : EveryOnce(vec_out[n]) /\ ByPriorityThenName(vec_out[n])
----------------------------------------------------------------------------
(* The delete set against the add and change sets *)

EmittedNames(ifaces) == {x.name : x \in AllIfaces(ifaces)}

\* C30: no interface name is both in the emitted delete set and in the
\* emitted add or change set; an interface that the orphan cascade marks
\* absent because its parent is deleted is not also added or changed.
C30_DeleteApart ==
    GenReturned =>
        EmittedNames(diff_out.del)
            \cap (EmittedNames(diff_out.add) \cup EmittedNames(diff_out.chg)) = {}

\* The same for the interfaces the cascade adds, leaving aside a name the
\* desire itself holds both absent and not absent.
OrphansApart ==
    GenReturned =>
        \A x \in AllIfaces(diff_out.del) :
            (DeletedAsOrphan(x) /\ ~DeletedAsDesired(x)) =>
                x.name \notin EmittedNames(diff_out.add) \cup EmittedNames(diff_out.chg)
====
